---------------------------- MODULE Spec2Model ----------------------------
(***************************************************************************)
(* Model of the eBay listing manager: the agent tool handlers              *)
(* (backend/agents/ebay_agent.py), the MCP tool dispatch                   *)
(* (backend/mcp/server.py), the REST endpoints (backend/main.py), the      *)
(* marketplace adapter (backend/services/ebay_service.py) and the          *)
(* persistence layer (backend/services/database_service.py).               *)
(*                                                                         *)
(* Prices are integers (currency units); listing ids are 1..MaxItems and   *)
(* 0 stands for "no id".  Of a listing's fields the model carries title,   *)
(* price, quantity and status; description, category_id, condition and     *)
(* images travel through the code exactly as title does.                   *)
(*                                                                         *)
(* A tool handler is called with an instance of its parameters_model: the  *)
(* dict a caller hands to Tool.function is converted to that model first,  *)
(* and the conversion raises when a Field constraint fails.                *)
(***************************************************************************)
EXTENDS Integers, Sequences, FiniteSets, TLC

\* ------------------------------------------------------------- bounds
MaxItems == 3
MaxPrice == 1
MaxQuantity == 1
MaxBulkLen == 3
MaxResults == 2

ItemIds    == 1..MaxItems
Titles     == {"A", "B"}
Prices     == (0 - 1)..MaxPrice
Quantities == (0 - 1)..MaxQuantity
Acks       == {"Success", "Failure", "Raise"}

VARIABLES
    mkt,    \* the marketplace's listings: item id -> item (the external eBay state)
    db,     \* the listings table: ebay_listing_id -> row
    last,   \* the request handled last and what its caller got back
    bulk,   \* the bulk operation in progress (its loop suspends at every await)
    pool,   \* the adapter's ThreadPoolExecutor and the handlers awaiting it
    tables, \* the listings and users tables as rows (unique columns checked)
    app,    \* the application's lifespan: module globals, mounted webhook handler
    upd     \* update_listing calls in progress, one per concurrent caller

vars == <<mkt, db, last, bulk, pool, tables, app, upd>>

\* ------------------------------------------------- marketplace and store
NoItem == [Title |-> "", StartPrice |-> 0, Quantity |-> 0, ListingStatus |-> "None"]
NoRow  == [title |-> "", price |-> 0, quantity |-> 0, status |-> "none", listed_at |-> FALSE]

FreeIds(m) == {i \in ItemIds : m[i] = NoItem}

\* ------------------------------------------------------------ schemas
\* ItemCondition, the conditions a REST body may name.
ItemCondition == {"New", "Like New", "Very Good", "Good", "Acceptable",
                  "For parts or not working"}

\* Condition strings a tool call may carry: the six and two that are none
\* of them.
ConditionStrings == ItemCondition \cup {"Refurbished", ""}

\* ListingDetails: price gt=0, quantity ge=0; condition is any string.
ListingDetailsValid_PriceGe0(d) == d.price >= 0 /\ d.quantity >= 0
ListingDetailsValid(d) == d.price > 0 /\ d.quantity >= 0

\* ListingCreate (the REST request body): price gt=0, quantity ge=0,
\* condition one of ItemCondition.
ListingCreateValid(d) == d.price > 0 /\ d.quantity >= 0 /\ d.condition \in ItemCondition

\* ------------------------------------------------- marketplace adapter
\* EbayService._get_condition_id: condition_map.get(condition, 1000).
GetConditionId_Strict(condition) ==
    CASE condition = "New"                      -> 1000
      [] condition = "Like New"                 -> 1500
      [] condition = "Very Good"                -> 2000
      [] condition = "Good"                     -> 3000
      [] condition = "Acceptable"               -> 4000
      [] condition = "For parts or not working" -> 7000
      [] OTHER                                  -> 0
GetConditionId(condition) ==
    CASE condition = "New"                      -> 1000
      [] condition = "Like New"                 -> 1500
      [] condition = "Very Good"                -> 2000
      [] condition = "Good"                     -> 3000
      [] condition = "Acceptable"               -> 4000
      [] condition = "For parts or not working" -> 7000
      [] OTHER                                  -> 1000

\* EbayService.create_listing: AddItem with the mapped fields; Ack "Success"
\* gives {listing_id, listing_url, fees}, anything else raises.
EbayCreateListing_IgnoreAck(listing_data, ack, newId, m) ==
    IF ack # "Raise"
    THEN [ok    |-> TRUE,
          value |-> [listing_id |-> newId, listing_url |-> newId, fees |-> 0],
          error |-> "",
          mkt   |-> m]
    ELSE [ok    |-> FALSE,
          value |-> [listing_id |-> 0, listing_url |-> 0, fees |-> 0],
          error |-> "Failed to create listing",
          mkt   |-> m]
EbayCreateListing(listing_data, ack, newId, m) ==
    IF ack = "Success"
    THEN [ok    |-> TRUE,
          value |-> [listing_id |-> newId, listing_url |-> newId, fees |-> 0],
          error |-> "",
          mkt   |-> [m EXCEPT ![newId] = [Title         |-> listing_data.title,
                                         StartPrice    |-> listing_data.price,
                                         Quantity      |-> listing_data.quantity,
                                         ListingStatus |-> "Active"]]]
    ELSE [ok    |-> FALSE,
          value |-> [listing_id |-> 0, listing_url |-> 0, fees |-> 0],
          error |-> "Failed to create listing",
          mkt   |-> m]

\* EbayService._parse_listing: the GetItem item in the internal field names.
ParseListing(id, item) ==
    [listing_id |-> id,
     title      |-> item.Title,
     price      |-> item.StartPrice,
     quantity   |-> item.Quantity,
     status     |-> item.ListingStatus,
     listed_at  |-> TRUE]

\* EbayService.get_listing: GetItem; Ack "Success" gives the parsed item.
EbayGetListing_IgnoreAck(id, ack, m) ==
    IF ack # "Raise"
    THEN [ok |-> TRUE, value |-> ParseListing(id, m[id]), error |-> ""]
    ELSE [ok |-> FALSE, value |-> ParseListing(0, NoItem), error |-> "Failed to get listing"]
EbayGetListing(id, ack, m) ==
    IF ack = "Success"
    THEN [ok |-> TRUE, value |-> ParseListing(id, m[id]), error |-> ""]
    ELSE [ok |-> FALSE, value |-> ParseListing(0, NoItem), error |-> "Failed to get listing"]

\* EbayService.update_listing: ReviseItem carrying the fields present in
\* updates; Ack "Success" gives {success, fees}, anything else raises.
EbayUpdateListing(id, updates, ack, m) ==
    IF ack = "Success"
    THEN [ok |-> TRUE, error |-> "",
          mkt |-> [m EXCEPT ![id] =
                     [Title         |-> IF "title" \in DOMAIN updates
                                        THEN updates.title ELSE @.Title,
                      StartPrice    |-> IF "price" \in DOMAIN updates
                                        THEN updates.price ELSE @.StartPrice,
                      Quantity      |-> IF "quantity" \in DOMAIN updates
                                        THEN updates.quantity ELSE @.Quantity,
                      ListingStatus |-> @.ListingStatus]]]
    ELSE [ok |-> FALSE, error |-> "Failed to update listing", mkt |-> m]

\* EbayService.delete_listing: EndItem; returns whether Ack was "Success",
\* raises only when the SDK call raises.
EbayDeleteListing(id, ack, m) ==
    IF ack = "Raise"
    THEN [ok |-> FALSE, value |-> FALSE, error |-> "Failed to end listing", mkt |-> m]
    ELSE [ok |-> TRUE, value |-> (ack = "Success"), error |-> "",
          mkt |-> IF ack = "Success"
                  THEN [m EXCEPT ![id].ListingStatus = "Ended"]
                  ELSE m]

\* EbayService._parse_search_result: one findItemsAdvanced item.
ParseSearchResult(id) == [src |-> "ebay", listing_id |-> id]

\* EbayService.search_listings: the items the marketplace found, parsed in
\* the order received; an SDK failure raises.
EbaySearchListings(found, ack) ==
    IF ack = "Raise"
    THEN [ok |-> FALSE, value |-> << >>, error |-> "Failed to search listings"]
    ELSE [ok |-> TRUE,
          value |-> [k \in 1..Len(found) |-> ParseSearchResult(found[k])],
          error |-> ""]

\* -------------------------------------------------- persistence layer
\* DatabaseService.store_listing: reads listing_data['title'], ['price'],
\* ['quantity'] (KeyError when absent) and adds a row with status 'active'
\* and listed_at = utcnow(); the commit fails when a row has this
\* ebay_listing_id already.
StoreListing(listing_data, d) ==
    IF ~({"title", "price", "quantity"} \subseteq DOMAIN listing_data)
    THEN [ok |-> FALSE, error |-> "KeyError: title", db |-> d]
    ELSE IF d[listing_data.listing_id] # NoRow
    THEN [ok |-> FALSE, error |-> "IntegrityError", db |-> d]
    ELSE [ok |-> TRUE, error |-> "",
          db |-> [d EXCEPT ![listing_data.listing_id] =
                     [title |-> listing_data.title, price |-> listing_data.price,
                      quantity |-> listing_data.quantity, status |-> "active",
                      listed_at |-> TRUE]]]

\* DatabaseService.update_listing: the row with this ebay_listing_id, if any,
\* gets every key of updates that is a column (listing_id is none).
DbUpdateListing(id, updates, d) ==
    IF d[id] = NoRow
    THEN d
    ELSE [d EXCEPT ![id] =
            [title     |-> IF "title" \in DOMAIN updates THEN updates.title ELSE @.title,
             price     |-> IF "price" \in DOMAIN updates THEN updates.price ELSE @.price,
             quantity  |-> IF "quantity" \in DOMAIN updates
                           THEN updates.quantity ELSE @.quantity,
             status    |-> IF "status" \in DOMAIN updates THEN updates.status ELSE @.status,
             listed_at |-> IF "listed_at" \in DOMAIN updates
                           THEN updates.listed_at ELSE @.listed_at]]

\* DatabaseService.delete_listing: removes the row, if any.
DbDeleteListing(id, d) == [d EXCEPT ![id] = NoRow]

\* The ids 1..n whose row matches, in ascending order.
RECURSIVE MatchingIds(_, _, _)
MatchingIds(n, criteria, d) ==
    IF n = 0 THEN << >>
    ELSE LET rest == MatchingIds(n - 1, criteria, d)
             hit  == /\ d[n] # NoRow
                     /\ criteria.keyword # "" => d[n].title = criteria.keyword
                     /\ criteria.status # "" => d[n].status = criteria.status
         IN  IF hit THEN Append(rest, n) ELSE rest

\* DatabaseService.search_listings: the rows matching keyword and status.
DbSearchListings(criteria, d) ==
    LET ids == MatchingIds(MaxItems, criteria, d)
    IN  [k \in 1..Len(ids) |-> [src |-> "local", listing_id |-> ids[k]]]

\* ------------------------------------------------------- agent tools
NoResult == [none |-> TRUE]

\* create_listing tool.  The outcome: did an exception leave the call
\* (raised), the dict returned (result), the adapter calls made (calls).
CreateListingTool(details, ack, newId, m, d) ==
    IF ~ListingDetailsValid(details)
    THEN [raised |-> TRUE, result |-> NoResult, calls |-> << >>, mkt |-> m, db |-> d]
    ELSE LET created == EbayCreateListing(details, ack, newId, m)
             call    == [api |-> "AddItem", ack |-> ack, id |-> created.value.listing_id,
                         ConditionID |-> GetConditionId(details.condition)]
         IN  IF ~created.ok
             THEN [raised |-> FALSE,
                   result |-> [success |-> FALSE, error |-> created.error,
                               message |-> "Failed to create listing"],
                   calls |-> <<call>>, mkt |-> created.mkt, db |-> d]
             ELSE LET stored == StoreListing(created.value, d)
                  IN  IF stored.ok
                      THEN [raised |-> FALSE,
                            result |-> [success |-> TRUE,
                                        listing_id |-> created.value.listing_id,
                                        url |-> created.value.listing_url,
                                        message |-> "Listing created successfully"],
                            calls |-> <<call>>, mkt |-> created.mkt, db |-> stored.db]
                      ELSE [raised |-> FALSE,
                            result |-> [success |-> FALSE, error |-> stored.error,
                                        message |-> "Failed to create listing"],
                            calls |-> <<call>>, mkt |-> created.mkt, db |-> stored.db]

\* {**current, **updates}: the keys of both, updates winning.
Merge(current, updates) ==
    [k \in DOMAIN current \cup DOMAIN updates |->
        IF k \in DOMAIN updates THEN updates[k] ELSE current[k]]

\* What the persistence layer can do with a call: complete it or raise
\* (connection lost, constraint violated).
DbAcks == {"Success", "Raise"}

\* update_listing tool: read the current listing, revise it on the
\* marketplace with current overlaid by updates, then write the same dict
\* to the local row.  (The _WriteFirst variant writes the local row before
\* the revision is acknowledged.)
UpdateListingTool_WriteFirst(update, ackGet, ackRevise, dbAck, m, d) ==
    LET current == EbayGetListing(update.listing_id, ackGet, m)
        getCall == [api |-> "GetItem", ack |-> ackGet, id |-> update.listing_id]
    IN  IF ~current.ok
        THEN [raised |-> FALSE,
              result |-> [success |-> FALSE, error |-> current.error,
                          message |-> "Failed to update listing"],
              calls |-> <<getCall>>, mkt |-> m, db |-> d]
        ELSE LET updated == Merge(current.value, update.updates)
                 written == IF dbAck = "Raise" THEN d
                            ELSE DbUpdateListing(update.listing_id, updated, d)
                 revised == EbayUpdateListing(update.listing_id, updated, ackRevise, m)
                 revCall == [api |-> "ReviseItem", ack |-> ackRevise,
                             id |-> update.listing_id]
             IN  IF dbAck = "Raise"
                 THEN [raised |-> FALSE,
                       result |-> [success |-> FALSE, error |-> "database error",
                                   message |-> "Failed to update listing"],
                       calls |-> <<getCall>>, mkt |-> m, db |-> d]
                 ELSE IF ~revised.ok
                 THEN [raised |-> FALSE,
                       result |-> [success |-> FALSE, error |-> revised.error,
                                   message |-> "Failed to update listing"],
                       calls |-> <<getCall, revCall>>, mkt |-> revised.mkt,
                       db |-> written]
                 ELSE [raised |-> FALSE,
                       result |-> [success |-> TRUE, listing_id |-> update.listing_id,
                                   updated_fields |-> DOMAIN update.updates,
                                   message |-> "Listing updated successfully"],
                       calls |-> <<getCall, revCall>>, mkt |-> revised.mkt,
                       db |-> written]
UpdateListingTool(update, ackGet, ackRevise, dbAck, m, d) ==
    LET current == EbayGetListing(update.listing_id, ackGet, m)
        getCall == [api |-> "GetItem", ack |-> ackGet, id |-> update.listing_id]
    IN  IF ~current.ok
        THEN [raised |-> FALSE,
              result |-> [success |-> FALSE, error |-> current.error,
                          message |-> "Failed to update listing"],
              calls |-> <<getCall>>, mkt |-> m, db |-> d]
        ELSE LET updated == Merge(current.value, update.updates)
                 revised == EbayUpdateListing(update.listing_id, updated, ackRevise, m)
                 revCall == [api |-> "ReviseItem", ack |-> ackRevise,
                             id |-> update.listing_id]
             IN  IF ~revised.ok
                 THEN [raised |-> FALSE,
                       result |-> [success |-> FALSE, error |-> revised.error,
                                   message |-> "Failed to update listing"],
                       calls |-> <<getCall, revCall>>, mkt |-> revised.mkt, db |-> d]
                 ELSE IF dbAck = "Raise"
                 THEN [raised |-> FALSE,
                       result |-> [success |-> FALSE, error |-> "database error",
                                   message |-> "Failed to update listing"],
                       calls |-> <<getCall, revCall>>, mkt |-> revised.mkt, db |-> d]
                 ELSE [raised |-> FALSE,
                       result |-> [success |-> TRUE, listing_id |-> update.listing_id,
                                   updated_fields |-> DOMAIN update.updates,
                                   message |-> "Listing updated successfully"],
                       calls |-> <<getCall, revCall>>, mkt |-> revised.mkt,
                       db |-> DbUpdateListing(update.listing_id, updated, d)]

\* _merge_listings: ebay + local.
RECURSIVE WithoutIds(_, _)
WithoutIds(listings, ids) ==
    IF listings = << >> THEN << >>
    ELSE IF Head(listings).listing_id \in ids
         THEN WithoutIds(Tail(listings), ids)
         ELSE <<Head(listings)>> \o WithoutIds(Tail(listings), ids)
MergeListings_Dedup(ebay, local) ==
    ebay \o WithoutIds(local, {ebay[k].listing_id : k \in 1..Len(ebay)})
MergeListings(ebay, local) == ebay \o local

\* search_listings tool: marketplace search, then local search, then merge.
SearchListingsTool(criteria, found, ack, dbAck, d) ==
    LET ebay_results == EbaySearchListings(found, ack)
        call == [api |-> "findItemsAdvanced", ack |-> ack, id |-> 0, items |-> found]
    IN  IF ~ebay_results.ok
        THEN [raised |-> FALSE,
              result |-> [success |-> FALSE, error |-> ebay_results.error,
                          message |-> "Search failed"],
              calls |-> <<call>>]
        ELSE IF dbAck = "Raise"
        THEN [raised |-> FALSE,
              result |-> [success |-> FALSE, error |-> "database error",
                          message |-> "Search failed"],
              calls |-> <<call>>]
        ELSE LET all_listings == MergeListings(ebay_results.value,
                                               DbSearchListings(criteria, d))
             IN  [raised |-> FALSE,
                  result |-> [success |-> TRUE, count |-> Len(all_listings),
                              listings |-> all_listings, message |-> "Found listings"],
                  calls |-> <<call>>]

\* analyze_listing tool: GetItem for the listing, GetItem again for the
\* analytics (which raises only on an SDK failure), then the insights.
AnalyzeListingTool(listing_id, ackGet, ackStats, m) ==
    LET listing == EbayGetListing(listing_id, ackGet, m)
        getCall == [api |-> "GetItem", ack |-> ackGet, id |-> listing_id]
        statCall == [api |-> "GetItem", ack |-> ackStats, id |-> listing_id]
    IN  IF ~listing.ok
        THEN [raised |-> FALSE,
              result |-> [success |-> FALSE, error |-> listing.error,
                          message |-> "Analysis failed"],
              calls |-> <<getCall>>]
        ELSE IF ackStats = "Raise"
        THEN [raised |-> FALSE,
              result |-> [success |-> FALSE, error |-> "Failed to get analytics",
                          message |-> "Analysis failed"],
              calls |-> <<getCall, statCall>>]
        ELSE [raised |-> FALSE,
              result |-> [success |-> TRUE, listing_id |-> listing_id,
                          insights |-> [suggested_price |-> listing.value.price],
                          message |-> "Analysis complete"],
              calls |-> <<getCall, statCall>>]

\* EbayService.get_category_suggestions: GetSuggestedCategories; the Ack is
\* not read, the suggestions are what the response carries; an SDK
\* failure raises.
EbayGetCategorySuggestions(ack) ==
    IF ack = "Raise"
    THEN [ok |-> FALSE, value |-> << >>, error |-> "Failed to get category suggestions"]
    ELSE [ok |-> TRUE,
          value |-> IF ack = "Success" THEN <<[category_id |-> 1]>> ELSE << >>,
          error |-> ""]

\* suggest_categories tool.
SuggestCategoriesTool_NoTry(ack) ==
    LET suggestions == EbayGetCategorySuggestions(ack)
        call == [api |-> "GetSuggestedCategories", ack |-> ack, id |-> 0]
    IN  IF ~suggestions.ok
        THEN [raised |-> TRUE, result |-> NoResult, calls |-> <<call>>]
        ELSE [raised |-> FALSE,
              result |-> [success |-> TRUE, suggestions |-> suggestions.value,
                          message |-> "Found category suggestions"],
              calls |-> <<call>>]
SuggestCategoriesTool(ack) ==
    LET suggestions == EbayGetCategorySuggestions(ack)
        call == [api |-> "GetSuggestedCategories", ack |-> ack, id |-> 0]
    IN  IF ~suggestions.ok
        THEN [raised |-> FALSE,
              result |-> [success |-> FALSE, error |-> suggestions.error,
                          message |-> "Failed to get suggestions"],
              calls |-> <<call>>]
        ELSE [raised |-> FALSE,
              result |-> [success |-> TRUE, suggestions |-> suggestions.value,
                          message |-> "Found category suggestions"],
              calls |-> <<call>>]

\* optimize_listing tool: GetItem, then the optimizations, which keep the
\* listing's title and price.
OptimizeListingTool(listing_id, ackGet, m) ==
    LET listing == EbayGetListing(listing_id, ackGet, m)
        getCall == [api |-> "GetItem", ack |-> ackGet, id |-> listing_id]
    IN  IF ~listing.ok
        THEN [raised |-> FALSE,
              result |-> [success |-> FALSE, error |-> listing.error,
                          message |-> "Optimization failed"],
              calls |-> <<getCall>>]
        ELSE [raised |-> FALSE,
              result |-> [success |-> TRUE, listing_id |-> listing_id,
                          optimizations |->
                              [title |-> listing.value.title,
                               pricing |-> [suggested_price |-> listing.value.price]],
                          message |-> "Optimization suggestions generated"],
              calls |-> <<getCall>>]

\* ------------------------------------------------------------- state
EmptyData == [k \in {} |-> 0]

\* EbayService.executor = ThreadPoolExecutor(max_workers=5).
MaxWorkers == 5
\* The request handlers that may be awaiting a marketplace call at once.
MaxHandlers == 6
Handlers == 1..MaxHandlers

\* Every handler outside a marketplace call, nothing submitted.
PoolIdle == [pc |-> [h \in Handlers |-> "idle"], queue |-> << >>]

\* Both tables empty (Base.metadata.create_all on a new database).
NoTables == [listings |-> << >>, users |-> << >>]
Idle == [phase |-> "idle"]

\* The module globals of main.py, all None until lifespan sets them.
Globals == <<"db_service", "ebay_service", "ebay_agent", "mcp_server">>
NoGlobals == [g \in {Globals[k] : k \in 1..Len(Globals)} |-> "None"]

\* main.py being imported: the globals are None, nothing is mounted.
Importing ==
    [phase   |-> "importing",
     globals |-> NoGlobals,
     webhook_handler |-> [mounted |-> FALSE, mcp_server |-> "None"],
     created |-> << >>,
     task    |-> FALSE,
     closed  |-> << >>,
     error   |-> ""]

\* The application after a startup that succeeded: lifespan has set the
\* four globals and started the protocol server's task; webhook_handler
\* is the object built while the module was imported.
Serving ==
    [phase   |-> "serving",
     globals |-> [db_service |-> "DatabaseService", ebay_service |-> "EbayService",
                  ebay_agent |-> "EbayListingAgent", mcp_server |-> "EbayMCPServer"],
     webhook_handler |-> [mounted |-> TRUE, mcp_server |-> "None"],
     created |-> Globals,
     task    |-> TRUE,
     closed  |-> << >>,
     error   |-> ""]

\* The callers whose update_listing calls may overlap.
Callers == {"a", "b"}
NoUpdate == [pc |-> "idle", listing_id |-> 0, updates |-> EmptyData,
             updated |-> EmptyData, result |-> NoResult]
NoUpdates == [c \in Callers |-> NoUpdate]
NoRequest == [entry |-> "none", tool |-> "", args |-> NoResult, ran |-> "",
              raised |-> FALSE, result |-> NoResult, response |-> NoResult,
              calls |-> << >>]

InitialItem == [Title |-> "A", StartPrice |-> 1, Quantity |-> 1, ListingStatus |-> "Active"]
InitialRow  == [title |-> "A", price |-> 1, quantity |-> 1, status |-> "active", listed_at |-> TRUE]

Init ==
    /\ mkt \in [ItemIds -> {NoItem, InitialItem}]
    /\ db \in {[i \in ItemIds |-> NoRow],
              [i \in ItemIds |-> IF mkt[i] = NoItem THEN NoRow ELSE InitialRow]}
    /\ last = NoRequest
    /\ bulk = Idle
    /\ pool = PoolIdle
    /\ tables = NoTables
    /\ app = Serving
    /\ upd = NoUpdates

\* A behaviour serves one request, from any of the store contents of Init.
Fresh ==
    /\ last.entry = "none"
    /\ bulk.phase = "idle"
    /\ app.phase = "serving"

\* ------------------------------------------------------------ inputs
UpdateDicts ==
    {[price |-> p] : p \in Prices} \cup {[title |-> t] : t \in Titles}
    \cup {[quantity |-> q] : q \in Quantities}
    \cup {[title |-> "B", price |-> MaxPrice]}

IdLists == UNION {[1..n -> ItemIds] : n \in 0..MaxBulkLen}
FoundLists == UNION {[1..n -> ItemIds] : n \in 0..MaxResults}

\* What the marketplace can answer: it acknowledges GetItem only for an
\* item it has, and ReviseItem and EndItem only for an active one.
CanAck(api, id, ack, m) ==
    ack = "Success" =>
        IF api = "GetItem" THEN m[id] # NoItem ELSE m[id].ListingStatus = "Active"

\* ------------------------------------------------------ REST endpoints
\* create_listing's answer once the tool was called: an exception of the
\* call, the HTTPException(400) raised inside the try for a failure
\* envelope, and ListingResponse(**result) on an envelope without the
\* response model's required fields all reach the except clause.
RestCreateResponse(t) ==
    IF t.raised THEN [status |-> 500, detail |-> "ValidationError"]
    ELSE IF ~t.result.success THEN [status |-> 500, detail |-> t.result.message]
    ELSE [status |-> 500, detail |-> "ValidationError"]

\* POST /api/listings.  The body is validated against ListingCreate before
\* the endpoint runs (422); every exception raised in the endpoint, the
\* HTTPException(400) included, is caught and re-raised as 500.
RestCreateListing ==
    /\ Fresh
    /\ \E title \in Titles, price \in Prices, quantity \in Quantities,
          condition \in ConditionStrings, ack \in Acks, newId \in ItemIds :
        LET listing == [title |-> title, price |-> price, quantity |-> quantity,
                        condition |-> condition] IN
        /\ ack = "Success" => newId \in FreeIds(mkt)
        /\ ack # "Success" => newId = 1
        /\ ~ListingCreateValid(listing) => ack = "Raise"
        /\ IF ~ListingCreateValid(listing)
           THEN /\ last' = [NoRequest EXCEPT !.entry = "rest", !.tool = "create_listing",
                               !.args = listing, !.response = [status |-> 422]]
                /\ UNCHANGED <<mkt, db>>
           ELSE LET t == CreateListingTool(listing, ack, newId, mkt, db) IN
                /\ last' = [entry |-> "rest", tool |-> "create_listing", args |-> listing,
                            ran |-> "create_listing", raised |-> t.raised,
                            result |-> t.result, response |-> RestCreateResponse(t),
                            calls |-> t.calls]
                /\ mkt' = t.mkt
                /\ db' = t.db
    /\ UNCHANGED bulk
    /\ UNCHANGED <<pool, tables, app, upd>>

\* ListingUpdate (the PUT body): price gt=0 and quantity ge=0 when present.
ListingUpdateValid(updates) ==
    /\ "price" \in DOMAIN updates => updates.price > 0
    /\ "quantity" \in DOMAIN updates => updates.quantity >= 0

\* The endpoints' common shape: try: result = await tool(...); if not
\* result["success"]: raise HTTPException(400, result["message"]); return
\* ...; except Exception as e: raise HTTPException(500, str(e)).  The
\* HTTPException(400) is raised inside the try and is an Exception: the
\* except clause catches it and answers 500 with its text as detail.
RestToolResponse(t) ==
    IF t.raised THEN [status |-> 500, detail |-> "ValidationError"]
    ELSE IF ~t.result.success
    THEN [status |-> 500, detail |-> [status_code |-> 400, detail |-> t.result.message]]
    ELSE [status |-> 200]

\* PUT /api/listings/{listing_id}: the body is validated against
\* ListingUpdate (422), the fields set go to the update_listing tool.
RestUpdateListing ==
    /\ Fresh
    /\ \E id \in ItemIds, updates \in UpdateDicts, ackGet \in Acks, ackRevise \in Acks,
          dbAck \in DbAcks :
        LET update_data == [listing_id |-> id, updates |-> updates]
            t == UpdateListingTool(update_data, ackGet, ackRevise, dbAck, mkt, db)
        IN
        /\ CanAck("GetItem", id, ackGet, mkt)
        /\ CanAck("ReviseItem", id, ackRevise, mkt)
        /\ ackGet # "Success" => ackRevise = "Raise"
        /\ ackRevise # "Success" => dbAck = "Success"
        /\ ~ListingUpdateValid(updates) => ackGet = "Raise"
        /\ IF ~ListingUpdateValid(updates)
           THEN /\ last' = [NoRequest EXCEPT !.entry = "rest", !.tool = "update_listing",
                               !.args = update_data, !.response = [status |-> 422]]
                /\ UNCHANGED <<mkt, db>>
           ELSE /\ last' = [entry |-> "rest", tool |-> "update_listing",
                            args |-> update_data, ran |-> "update_listing",
                            raised |-> t.raised, result |-> t.result,
                            response |-> RestToolResponse(t), calls |-> t.calls]
                /\ mkt' = t.mkt
                /\ db' = t.db
    /\ UNCHANGED bulk
    /\ UNCHANGED <<pool, tables, app, upd>>

\* A Python slice s[start:stop] of a list: a negative bound counts from
\* the end, either bound is clamped to the list, and the slice is empty
\* when the bounds cross.  (Positions here are 1-based: s[lo+1..hi].)
SliceBound(n, b) ==
    IF b < 0 THEN (IF b + n < 0 THEN 0 ELSE b + n)
    ELSE IF b > n THEN n ELSE b

PySlice(s, start, stop) ==
    LET lo == SliceBound(Len(s), start)
        hi == SliceBound(Len(s), stop)
    IN  IF lo < hi THEN SubSeq(s, lo + 1, hi) ELSE << >>

\* limit and offset are plain int query parameters: any integer is
\* accepted.  The values tried.
MaxPage == 2
PageValues == (0 - MaxPage)..MaxPage

\* GET /api/listings: the answer for limit and offset.
RestSearchResponse(t, limit, offset) ==
    IF t.raised \/ ~t.result.success
    THEN RestToolResponse(t)
    ELSE [status |-> 200,
          body   |-> [total    |-> t.result.count,
                      limit    |-> limit,
                      offset   |-> offset,
                      listings |-> PySlice(t.result.listings, offset, offset + limit)]]

\* GET /api/listings: the criteria go to the search_listings tool, the
\* merged list is cut to the page asked for.
RestSearchListings ==
    /\ Fresh
    /\ \E keyword \in {""} \cup Titles, status \in {"", "active"}, found \in FoundLists,
          ack \in {"Success", "Raise"}, dbAck \in DbAcks,
          limit \in PageValues, offset \in PageValues :
        LET criteria == [keyword |-> keyword, status |-> status]
            t == SearchListingsTool(criteria, found, ack, dbAck, db)
        IN
        /\ ack = "Raise" => found = << >> /\ dbAck = "Success"
        /\ last' = [entry |-> "rest", tool |-> "search_listings", args |-> criteria,
                    ran |-> "search_listings", raised |-> t.raised, result |-> t.result,
                    response |-> RestSearchResponse(t, limit, offset), calls |-> t.calls]
    /\ UNCHANGED <<mkt, db, bulk>>
    /\ UNCHANGED <<pool, tables, app, upd>>

\* POST /api/listings/{listing_id}/analyze.
RestAnalyzeListing ==
    /\ Fresh
    /\ \E id \in ItemIds, ackGet \in Acks, ackStats \in {"Success", "Raise"} :
        LET t == AnalyzeListingTool(id, ackGet, ackStats, mkt) IN
        /\ CanAck("GetItem", id, ackGet, mkt)
        /\ ackGet # "Success" => ackStats = "Raise"
        /\ last' = [entry |-> "rest", tool |-> "analyze_listing",
                    args |-> [listing_id |-> id], ran |-> "analyze_listing",
                    raised |-> t.raised, result |-> t.result,
                    response |-> RestToolResponse(t), calls |-> t.calls]
    /\ UNCHANGED <<mkt, db, bulk>>
    /\ UNCHANGED <<pool, tables, app, upd>>

\* GET /api/categories/suggest.
RestSuggestCategories ==
    /\ Fresh
    /\ \E title \in Titles, ack \in Acks :
        LET t == SuggestCategoriesTool(ack) IN
        /\ last' = [entry |-> "rest", tool |-> "suggest_categories",
                    args |-> [title |-> title], ran |-> "suggest_categories",
                    raised |-> t.raised, result |-> t.result,
                    response |-> RestToolResponse(t), calls |-> t.calls]
    /\ UNCHANGED <<mkt, db, bulk>>
    /\ UNCHANGED <<pool, tables, app, upd>>

\* POST /api/listings/{listing_id}/optimize: the optimize_listing tool and,
\* with apply set, the update_listing tool with the optimized title and
\* price; the answer is 200 whatever the update returned.
RestOptimizeListing ==
    /\ Fresh
    /\ \E id \in ItemIds, apply \in BOOLEAN, ackOpt \in Acks, ackGet \in Acks,
          ackRevise \in Acks, dbAck \in DbAcks :
        LET t == OptimizeListingTool(id, ackOpt, mkt)
            applied == t.result.success /\ apply
            updates == IF applied
                       THEN [title |-> t.result.optimizations.title,
                             price |-> t.result.optimizations.pricing.suggested_price]
                       ELSE EmptyData
            u == UpdateListingTool([listing_id |-> id, updates |-> updates],
                                   ackGet, ackRevise, dbAck, mkt, db)
        IN
        /\ CanAck("GetItem", id, ackOpt, mkt)
        /\ CanAck("GetItem", id, ackGet, mkt)
        /\ CanAck("ReviseItem", id, ackRevise, mkt)
        /\ ackGet # "Success" => ackRevise = "Raise"
        /\ ackRevise # "Success" => dbAck = "Success"
        /\ ~applied => ackGet = "Raise"
        /\ last' = [entry |-> "rest", tool |-> "optimize_listing",
                    args |-> [listing_id |-> id, apply |-> apply],
                    ran |-> "optimize_listing", raised |-> t.raised, result |-> t.result,
                    response |-> IF applied
                                 THEN [status |-> 200, applied |-> u.result.success]
                                 ELSE RestToolResponse(t),
                    calls |-> IF applied THEN t.calls \o u.calls ELSE t.calls]
        /\ mkt' = IF applied THEN u.mkt ELSE mkt
        /\ db' = IF applied THEN u.db ELSE db
    /\ UNCHANGED bulk
    /\ UNCHANGED <<pool, tables, app, upd>>

\* DELETE /api/listings/{listing_id}: EndItem, whose boolean result is not
\* read, then the local row is removed; only an exception gives a 500.
RestDeleteListing ==
    /\ Fresh
    /\ \E id \in ItemIds, ack \in Acks :
        LET r == EbayDeleteListing(id, ack, mkt) IN
        /\ CanAck("EndItem", id, ack, mkt)
        /\ last' = [entry |-> "rest", tool |-> "delete_listing",
                    args |-> [listing_id |-> id], ran |-> "delete_listing",
                    raised |-> ~r.ok,
                    result |-> IF r.ok
                               THEN [success |-> TRUE, message |-> "Listing deleted"]
                               ELSE NoResult,
                    response |-> IF r.ok THEN [status |-> 200]
                                 ELSE [status |-> 500, detail |-> r.error],
                    calls |-> <<[api |-> "EndItem", ack |-> ack, id |-> id]>>]
        /\ mkt' = r.mkt
        /\ db' = IF r.ok THEN DbDeleteListing(id, db) ELSE db
    /\ UNCHANGED bulk
    /\ UNCHANGED <<pool, tables, app, upd>>

\* ------------------------------------------------------- MCP dispatch
ToolNames == {"create_listing", "update_listing", "search_listings", "analyze_listing",
              "bulk_operations", "generate_report", "ai_assistant"}
OtherNames == {"bulk_update", "delete_listing"}

\* handle_call_tool's if/elif chain: the handler a tool name selects; the
\* final else raises ValueError("Unknown tool: ...").
Handler_ElseAssistant(tool_name) ==
    CASE tool_name = "create_listing"  -> "_create_listing"
      [] tool_name = "update_listing"  -> "_update_listing"
      [] tool_name = "search_listings" -> "_search_listings"
      [] tool_name = "analyze_listing" -> "_analyze_listing"
      [] tool_name = "bulk_operations" -> "_bulk_operations"
      [] tool_name = "generate_report" -> "_generate_report"
      [] OTHER                         -> "_ai_assistant"
Handler(tool_name) ==
    CASE tool_name = "create_listing"  -> "_create_listing"
      [] tool_name = "update_listing"  -> "_update_listing"
      [] tool_name = "search_listings" -> "_search_listings"
      [] tool_name = "analyze_listing" -> "_analyze_listing"
      [] tool_name = "bulk_operations" -> "_bulk_operations"
      [] tool_name = "generate_report" -> "_generate_report"
      [] tool_name = "ai_assistant"    -> "_ai_assistant"
      [] OTHER                         -> "ValueError"

\* handle_call_tool's two returns: the handler's dict as text, or, from the
\* except clause, {error, tool, timestamp} with is_error set.
ToolResult(tool_name, raised, error, result) ==
    IF raised
    THEN [is_error |-> TRUE, body |-> [error |-> error, tool |-> tool_name, timestamp |-> 0]]
    ELSE [is_error |-> FALSE, body |-> result]

\* tool create_listing -> _create_listing: quantity defaults to 1,
\* condition to "New".
McpCreateListing ==
    /\ Fresh
    /\ \E tool_name \in ToolNames \cup OtherNames, title \in Titles, price \in Prices,
          quantity \in Quantities \cup {MaxQuantity + 1},
          conditions \in {<<c>> : c \in ConditionStrings} \cup {<< >>},
          ack \in Acks, newId \in ItemIds :
        LET args == IF quantity \in Quantities
                    THEN [title |-> title, price |-> price, quantity |-> quantity]
                    ELSE [title |-> title, price |-> price]
            listing_details ==
                [title |-> args.title, price |-> args.price,
                 quantity |-> IF "quantity" \in DOMAIN args THEN args.quantity ELSE 1,
                 condition |-> IF conditions # << >> THEN conditions[1] ELSE "New"]
            t == CreateListingTool(listing_details, ack, newId, mkt, db)
        IN
        /\ Handler(tool_name) = "_create_listing"
        /\ ack = "Success" => newId \in FreeIds(mkt)
        /\ ack # "Success" => newId = 1
        /\ ~ListingDetailsValid(listing_details) => ack = "Raise"
        /\ last' = [entry |-> "mcp", tool |-> tool_name, args |-> listing_details,
                    ran |-> "_create_listing", raised |-> t.raised, result |-> t.result,
                    response |-> ToolResult(tool_name, t.raised, "ValidationError", t.result),
                    calls |-> t.calls]
        /\ mkt' = t.mkt
        /\ db' = t.db
    /\ UNCHANGED bulk
    /\ UNCHANGED <<pool, tables, app, upd>>

\* tool update_listing -> _update_listing.
McpUpdateListing ==
    /\ Fresh
    /\ \E tool_name \in ToolNames \cup OtherNames, id \in ItemIds, updates \in UpdateDicts,
          ackGet \in Acks, ackRevise \in Acks, dbAck \in DbAcks :
        LET update_data == [listing_id |-> id, updates |-> updates]
            t == UpdateListingTool(update_data, ackGet, ackRevise, dbAck, mkt, db)
        IN
        /\ Handler(tool_name) = "_update_listing"
        /\ CanAck("GetItem", id, ackGet, mkt)
        /\ CanAck("ReviseItem", id, ackRevise, mkt)
        /\ ackGet # "Success" => ackRevise = "Raise"
        /\ ackRevise # "Success" => dbAck = "Success"
        /\ last' = [entry |-> "mcp", tool |-> tool_name, args |-> update_data,
                    ran |-> "_update_listing", raised |-> t.raised, result |-> t.result,
                    response |-> ToolResult(tool_name, t.raised, "", t.result),
                    calls |-> t.calls]
        /\ mkt' = t.mkt
        /\ db' = t.db
    /\ UNCHANGED bulk
    /\ UNCHANGED <<pool, tables, app, upd>>

\* tool search_listings -> _search_listings.
McpSearchListings ==
    /\ Fresh
    /\ \E tool_name \in ToolNames \cup OtherNames, keyword \in {""} \cup Titles,
          status \in {"", "active"}, found \in FoundLists, ack \in {"Success", "Raise"},
          dbAck \in DbAcks :
        LET search_criteria == [keyword |-> keyword, status |-> status]
            t == SearchListingsTool(search_criteria, found, ack, dbAck, db)
        IN
        /\ Handler(tool_name) = "_search_listings"
        /\ ack = "Raise" => found = << >> /\ dbAck = "Success"
        /\ last' = [entry |-> "mcp", tool |-> tool_name, args |-> search_criteria,
                    ran |-> "_search_listings", raised |-> t.raised, result |-> t.result,
                    response |-> ToolResult(tool_name, t.raised, "", t.result),
                    calls |-> t.calls]
    /\ UNCHANGED <<mkt, db, bulk>>
    /\ UNCHANGED <<pool, tables, app, upd>>

\* tool analyze_listing -> _analyze_listing.
McpAnalyzeListing ==
    /\ Fresh
    /\ \E tool_name \in ToolNames \cup OtherNames, id \in ItemIds,
          ackGet \in Acks, ackStats \in {"Success", "Raise"} :
        LET t == AnalyzeListingTool(id, ackGet, ackStats, mkt) IN
        /\ Handler(tool_name) = "_analyze_listing"
        /\ CanAck("GetItem", id, ackGet, mkt)
        /\ ackGet # "Success" => ackStats = "Raise"
        /\ last' = [entry |-> "mcp", tool |-> tool_name, args |-> [listing_id |-> id],
                    ran |-> "_analyze_listing", raised |-> t.raised, result |-> t.result,
                    response |-> ToolResult(tool_name, t.raised, "", t.result),
                    calls |-> t.calls]
    /\ UNCHANGED <<mkt, db, bulk>>
    /\ UNCHANGED <<pool, tables, app, upd>>

\* _generate_report: the report of the requested type, or
\* {"error": "Unknown report type"}.
GenerateReport(report_type) ==
    IF report_type \in {"sales", "performance", "inventory", "analytics"}
    THEN [report_type |-> report_type, total |-> 0]
    ELSE [error |-> "Unknown report type"]

\* _bulk_operations for 'delete' and 'relist' (and any other operation but
\* 'update'): the loops hold no call, every id is recorded as a success;
\* an operation that is none of the three leaves results empty.
McpBulkReport(operation, listing_ids) ==
    [operation |-> operation,
     total     |-> Len(listing_ids),
     results   |-> IF operation \in {"delete", "relist"}
                   THEN [k \in 1..Len(listing_ids) |->
                            [listing_id |-> listing_ids[k], success |-> TRUE]]
                   ELSE << >>]

\* tool bulk_operations -> _bulk_operations, operation other than 'update'
\* ('update' runs the bulk_update tool's loop: the Bulk actions below).
McpBulkOperations ==
    /\ Fresh
    /\ \E tool_name \in ToolNames \cup OtherNames, operation \in {"delete", "relist"},
          listing_ids \in IdLists :
        LET args == [operation |-> operation, listing_ids |-> listing_ids]
            result == McpBulkReport(operation, listing_ids)
        IN
        /\ Handler(tool_name) = "_bulk_operations"
        /\ last' = [entry |-> "mcp", tool |-> tool_name, args |-> args,
                    ran |-> "_bulk_operations", raised |-> FALSE, result |-> result,
                    response |-> ToolResult(tool_name, FALSE, "", result),
                    calls |-> << >>]
    /\ UNCHANGED <<mkt, db, bulk>>
    /\ UNCHANGED <<pool, tables, app, upd>>

\* tool generate_report -> _generate_report.
McpGenerateReport ==
    /\ Fresh
    /\ \E tool_name \in ToolNames \cup OtherNames,
          report_type \in {"sales", "performance", "inventory", "analytics", "other"} :
        LET result == GenerateReport(report_type) IN
        /\ Handler(tool_name) = "_generate_report"
        /\ last' = [entry |-> "mcp", tool |-> tool_name,
                    args |-> [report_type |-> report_type],
                    ran |-> "_generate_report", raised |-> FALSE, result |-> result,
                    response |-> ToolResult(tool_name, FALSE, "", result),
                    calls |-> << >>]
    /\ UNCHANGED <<mkt, db, bulk>>
    /\ UNCHANGED <<pool, tables, app, upd>>

\* tool ai_assistant -> _ai_assistant: the agent run answers or raises.
McpAiAssistant ==
    /\ Fresh
    /\ \E tool_name \in ToolNames \cup OtherNames, answered \in BOOLEAN :
        LET result == IF answered
                      THEN [query |-> "q", response |-> "r", timestamp |-> 0]
                      ELSE NoResult
        IN
        /\ Handler(tool_name) = "_ai_assistant"
        /\ last' = [entry |-> "mcp", tool |-> tool_name, args |-> [query |-> "q"],
                    ran |-> "_ai_assistant", raised |-> ~answered, result |-> result,
                    response |-> ToolResult(tool_name, ~answered, "agent run failed", result),
                    calls |-> << >>]
    /\ UNCHANGED <<mkt, db, bulk>>
    /\ UNCHANGED <<pool, tables, app, upd>>

\* Any other name: the else branch raises, the except clause answers.
McpUnknownTool ==
    /\ Fresh
    /\ \E tool_name \in ToolNames \cup OtherNames :
        /\ Handler(tool_name) = "ValueError"
        /\ last' = [entry |-> "mcp", tool |-> tool_name, args |-> NoResult,
                    ran |-> "", raised |-> TRUE, result |-> NoResult,
                    response |-> ToolResult(tool_name, TRUE, "Unknown tool", NoResult),
                    calls |-> << >>]
    /\ UNCHANGED <<mkt, db, bulk>>
    /\ UNCHANGED <<pool, tables, app, upd>>

\* ---------------------------------------------------- bulk operations
BulkData == {EmptyData, [price |-> MaxPrice], [title |-> "B"]}

\* The per-id entry of a bulk loop: its try branch and its except branch.
BulkEntry(listing_id, ok, error) ==
    IF ok
    THEN [listing_id |-> listing_id, success |-> TRUE]
    ELSE [listing_id |-> listing_id, success |-> FALSE, error |-> error]

SuccessCount(results) == Cardinality({k \in 1..Len(results) : results[k].success})

\* bulk_update's return value.
BulkUpdateReport_CountAll(listing_ids, results) ==
    [success |-> Len(results) > 0, total |-> Len(listing_ids),
     successful |-> Len(results), failed |-> Len(listing_ids) - Len(results),
     results |-> results, message |-> "Updated listings"]
BulkUpdateReport_NoneFailed(listing_ids, results) ==
    [success |-> SuccessCount(results) = Len(listing_ids), total |-> Len(listing_ids),
     successful |-> SuccessCount(results),
     failed |-> Len(listing_ids) - SuccessCount(results),
     results |-> results, message |-> "Updated listings"]
BulkUpdateReport(listing_ids, results) ==
    [success    |-> SuccessCount(results) > 0,
     total      |-> Len(listing_ids),
     successful |-> SuccessCount(results),
     failed     |-> Len(listing_ids) - SuccessCount(results),
     results    |-> results,
     message    |-> "Updated listings"]

\* perform_bulk_operation's return value for 'delete'.
RestDeleteReport(operation, listing_ids, results) ==
    [operation  |-> operation,
     total      |-> Len(listing_ids),
     successful |-> SuccessCount(results),
     failed     |-> Len(listing_ids) - SuccessCount(results),
     results    |-> results]

\* perform_bulk_operation's branch: 'update' with non-empty data runs the
\* bulk_update tool, 'delete' runs the delete loop, anything else raises
\* ValueError("Unsupported operation: ...").
RestBulkBranch(operation, data) ==
    IF operation = "update" /\ DOMAIN data # {} THEN "bulk_update"
    ELSE IF operation = "delete" THEN "delete_loop"
    ELSE "ValueError"

\* BulkOperationRequest: operation matches ^(update|delete|relist)$ and
\* listing_ids has at least one item.
BulkOperationRequestValid(operation, listing_ids) ==
    operation \in {"update", "delete", "relist"} /\ Len(listing_ids) >= 1

\* bulk_operations: if len(request.listing_ids) > 10 the operation becomes a
\* background task, else it is awaited.
BackgroundThreshold == 10
RunsInBackground(listing_ids) == Len(listing_ids) > BackgroundThreshold

\* A bulk loop begins: the bulk_update tool called directly ("agent"),
\* through perform_bulk_operation ("rest") or through _bulk_operations
\* ("mcp"); perform_bulk_operation's own delete loop.
BulkStart ==
    /\ Fresh
    /\ \E entry \in {"agent", "rest", "mcp"}, operation \in {"update", "delete"},
          listing_ids \in IdLists, data \in BulkData :
        /\ entry = "agent" => operation = "update"
        /\ entry = "mcp" => operation = "update" /\ Handler("bulk_operations") = "_bulk_operations"
        /\ entry = "rest" => /\ BulkOperationRequestValid(operation, listing_ids)
                             /\ ~RunsInBackground(listing_ids)
                             /\ RestBulkBranch(operation, data) # "ValueError"
        /\ operation = "delete" => data = EmptyData
        /\ bulk' = [phase |-> "run", entry |-> entry, operation |-> operation,
                    ids |-> listing_ids, data |-> data, started |-> 0,
                    results |-> << >>, calls |-> << >>]
    /\ UNCHANGED <<mkt, db, last>>
    /\ UNCHANGED <<pool, tables, app, upd>>

\* for listing_id in listing_ids: ... await ...: the call for the next id is
\* made once the call before it has returned or raised.
CanStartCall_Eager(b) == TRUE
CanStartCall(b) == b.started = Len(b.results)

\* The loop reaches the await of the next id's marketplace call.
BulkCall ==
    /\ bulk.phase = "run"
    /\ bulk.started < Len(bulk.ids)
    /\ CanStartCall(bulk)
    /\ bulk' = [bulk EXCEPT !.started = @ + 1]
    /\ UNCHANGED <<mkt, db, last>>
    /\ UNCHANGED <<pool, tables, app, upd>>

\* The awaited call returns or raises; the loop appends the id's entry.
\* The delete loop removes the local row after EndItem returned.
BulkReturn ==
    /\ bulk.phase = "run"
    /\ Len(bulk.results) < bulk.started
    /\ \E ack \in Acks :
        LET listing_id == bulk.ids[Len(bulk.results) + 1]
            api == IF bulk.operation = "update" THEN "ReviseItem" ELSE "EndItem"
            r == IF bulk.operation = "update"
                 THEN EbayUpdateListing(listing_id, bulk.data, ack, mkt)
                 ELSE EbayDeleteListing(listing_id, ack, mkt)
        IN
        /\ CanAck(api, listing_id, ack, mkt)
        /\ mkt' = r.mkt
        /\ db' = IF bulk.operation = "delete" /\ r.ok THEN DbDeleteListing(listing_id, db) ELSE db
        /\ bulk' = [bulk EXCEPT
                      !.results = Append(@, BulkEntry(listing_id, r.ok, r.error)),
                      !.calls = Append(@, [api |-> api, ack |-> ack, id |-> listing_id])]
    /\ UNCHANGED last
    /\ UNCHANGED <<pool, tables, app, upd>>

\* The loop is over: the report goes back to the caller; the return value
\* of a background task goes nowhere.
BulkFinish ==
    /\ bulk.phase = "run"
    /\ Len(bulk.results) = Len(bulk.ids)
    /\ LET report == IF bulk.operation = "update"
                     THEN BulkUpdateReport(bulk.ids, bulk.results)
                     ELSE RestDeleteReport(bulk.operation, bulk.ids, bulk.results)
       IN  last' = IF bulk.entry = "background" THEN last ELSE
                   [entry |-> bulk.entry,
                    tool |-> IF bulk.entry = "agent" THEN "bulk_update" ELSE "bulk_operations",
                    args |-> [operation |-> bulk.operation, listing_ids |-> bulk.ids,
                              data |-> bulk.data],
                    ran |-> IF bulk.operation = "update" THEN "bulk_update"
                            ELSE "perform_bulk_operation",
                    raised |-> FALSE, result |-> report,
                    response |-> IF bulk.entry = "mcp"
                                 THEN ToolResult("bulk_operations", FALSE, "", report)
                                 ELSE IF bulk.entry = "rest" THEN [status |-> 200]
                                 ELSE NoResult,
                    calls |-> bulk.calls]
    /\ bulk' = [bulk EXCEPT !.phase = "done"]
    /\ UNCHANGED <<mkt, db>>
    /\ UNCHANGED <<pool, tables, app, upd>>

\* POST /api/bulk-operations whose operation perform_bulk_operation has no
\* branch for: ValueError, which the endpoint turns into a 500.
RestBulkUnsupported ==
    /\ Fresh
    /\ \E operation \in {"update", "delete", "relist"}, listing_ids \in IdLists,
          data \in BulkData :
        /\ BulkOperationRequestValid(operation, listing_ids)
        /\ ~RunsInBackground(listing_ids)
        /\ RestBulkBranch(operation, data) = "ValueError"
        /\ last' = [entry |-> "rest", tool |-> "bulk_operations",
                    args |-> [operation |-> operation, listing_ids |-> listing_ids,
                              data |-> data],
                    ran |-> "perform_bulk_operation", raised |-> TRUE, result |-> NoResult,
                    response |-> [status |-> 500, detail |-> "Unsupported operation"],
                    calls |-> << >>]
    /\ UNCHANGED <<mkt, db, bulk>>
    /\ UNCHANGED <<pool, tables, app, upd>>

\* The id lists around the threshold: BackgroundThreshold and
\* BackgroundThreshold + 1 ids, the listings taken in turn.
LargeLists ==
    {[k \in 1..n |-> ((k - 1) % MaxItems) + 1] :
        n \in BackgroundThreshold..(BackgroundThreshold + 1)}

\* POST /api/bulk-operations with a list around the threshold.  Above it
\* the endpoint adds perform_bulk_operation to the background tasks and
\* answers {success, message, task_id}; the task starts after the response
\* and its ValueError, if any, reaches no one.  Otherwise the endpoint
\* awaits perform_bulk_operation.
RestBulkLarge ==
    /\ Fresh
    /\ \E operation \in {"update", "delete", "relist"}, listing_ids \in LargeLists,
          data \in {EmptyData, [title |-> "B"]} :
        LET args == [operation |-> operation, listing_ids |-> listing_ids, data |-> data]
            branch == RestBulkBranch(operation, data)
            loop == [phase |-> "run", entry |-> "rest", operation |-> operation,
                     ids |-> listing_ids, data |-> data, started |-> 0,
                     results |-> << >>, calls |-> << >>]
            answer == [success |-> TRUE, message |-> "Bulk operation started in background",
                       task_id |-> "bulk_now"]
        IN
        /\ BulkOperationRequestValid(operation, listing_ids)
        /\ operation # "update" => data = EmptyData
        /\ IF RunsInBackground(listing_ids)
           THEN /\ last' = [entry |-> "rest", tool |-> "bulk_operations", args |-> args,
                            ran |-> "", raised |-> FALSE, result |-> answer,
                            response |-> [status |-> 200], calls |-> << >>]
                /\ bulk' = IF branch = "ValueError"
                           THEN [loop EXCEPT !.phase = "done", !.entry = "background"]
                           ELSE [loop EXCEPT !.entry = "background"]
           ELSE IF branch = "ValueError"
           THEN /\ last' = [entry |-> "rest", tool |-> "bulk_operations", args |-> args,
                            ran |-> "perform_bulk_operation", raised |-> TRUE,
                            result |-> NoResult,
                            response |-> [status |-> 500, detail |-> "Unsupported operation"],
                            calls |-> << >>]
                /\ UNCHANGED bulk
           ELSE /\ bulk' = loop
                /\ UNCHANGED last
    /\ UNCHANGED <<mkt, db, pool, tables, app, upd>>

\* ------------------------------------------------------ unique columns
\* The tables as the rows they hold, in insertion order.  A listings row
\* carries ebay_listing_id (0 for NULL); a users row carries email and
\* ebay_user_id (0 for NULL).
MaxRows == 2
Emails == {"a@example.com", "b@example.com"}
EbayUserIds == {1}

\* Column(..., unique=True): the commit of a row whose value another row
\* has already raises IntegrityError; NULLs do not collide (email is not
\* nullable).
UniqueViolation_Off(rows, column, value) == FALSE
UniqueViolation(rows, column, value) ==
    /\ column = "email" \/ value # 0
    /\ \E k \in 1..Len(rows) : rows[k][column] = value

\* DatabaseService.store_listing on the table: session.add, commit; the
\* session is discarded when the commit raises.
TableStoreListing(listing_data, t) ==
    LET row == [ebay_listing_id |-> listing_data.listing_id,
                title |-> listing_data.title, status |-> "active"]
    IN  IF UniqueViolation(t.listings, "ebay_listing_id", row.ebay_listing_id)
        THEN [ok |-> FALSE, error |-> "IntegrityError", tables |-> t]
        ELSE [ok |-> TRUE, error |-> "",
              tables |-> [t EXCEPT !.listings = Append(@, row)]]

\* DatabaseService.create_user on the table.
TableCreateUser(email, ebay_user_id, t) ==
    LET user == [email |-> email, ebay_user_id |-> ebay_user_id]
    IN  IF \/ UniqueViolation(t.users, "email", email)
           \/ UniqueViolation(t.users, "ebay_user_id", ebay_user_id)
        THEN [ok |-> FALSE, error |-> "IntegrityError", tables |-> t]
        ELSE [ok |-> TRUE, error |-> "", tables |-> [t EXCEPT !.users = Append(@, user)]]

\* The rows left when the first row with this ebay_listing_id is deleted.
RECURSIVE WithoutRow(_, _)
WithoutRow(rows, listing_id) ==
    IF rows = << >> THEN << >>
    ELSE IF Head(rows).ebay_listing_id = listing_id THEN Tail(rows)
    ELSE <<Head(rows)>> \o WithoutRow(Tail(rows), listing_id)

\* store_listing called with a full listing dict.
DbStoreListing ==
    /\ Len(tables.listings) < MaxRows
    /\ \E listing_id \in {0} \cup ItemIds, title \in Titles :
        LET listing_data == [listing_id |-> listing_id, title |-> title]
            r == TableStoreListing(listing_data, tables)
        IN
        /\ tables' = r.tables
        /\ last' = [NoRequest EXCEPT !.entry = "db", !.tool = "store_listing",
                       !.args = listing_data, !.ran = "store_listing",
                       !.raised = ~r.ok]
    /\ UNCHANGED <<mkt, db, bulk, pool, app, upd>>

\* create_user.
DbCreateUser ==
    /\ Len(tables.users) < MaxRows
    /\ \E email \in Emails, ebay_user_id \in {0} \cup EbayUserIds :
        LET r == TableCreateUser(email, ebay_user_id, tables) IN
        /\ tables' = r.tables
        /\ last' = [NoRequest EXCEPT !.entry = "db", !.tool = "create_user",
                       !.args = [email |-> email, ebay_user_id |-> ebay_user_id],
                       !.ran = "create_user", !.raised = ~r.ok]
    /\ UNCHANGED <<mkt, db, bulk, pool, app, upd>>

\* delete_listing: the row with this ebay_listing_id, if any, is removed.
DbRemoveListing ==
    /\ \E listing_id \in ItemIds :
        /\ tables' = [tables EXCEPT !.listings = WithoutRow(@, listing_id)]
        /\ last' = [NoRequest EXCEPT !.entry = "db", !.tool = "delete_listing",
                       !.args = [listing_id |-> listing_id], !.ran = "delete_listing"]
    /\ UNCHANGED <<mkt, db, bulk, pool, app, upd>>

\* --------------------------------------------------------- worker pool
\* Every adapter method makes its SDK call as
\*   await loop.run_in_executor(self.executor, lambda: api.execute(...)).
\* A handler is "idle" (outside a call), "queued" (its call submitted, no
\* worker has taken it), "running" (a worker executes it), "hung" (a worker
\* executes it and the SDK call will never return), or "returned" (the call
\* completed, the handler has not been resumed yet).
Busy(p) == {h \in Handlers : p.pc[h] \in {"running", "hung"}}
Hung(p) == {h \in Handlers : p.pc[h] = "hung"}

\* A worker takes the next work item when fewer than max_workers are busy.
HasFreeWorker_Unbounded(p) == TRUE
HasFreeWorker(p) == Cardinality(Busy(p)) < MaxWorkers

\* The awaited future completes when the SDK call returns or raises; no
\* timeout and no cancellation completes it otherwise.
CallCanComplete_WithTimeout(state) == state \in {"running", "hung"}
CallCanComplete(state) == state = "running"

\* run_in_executor: the call is put on the executor's queue, the handler
\* awaits its future.
PoolSubmit ==
    /\ \E h \in Handlers :
        /\ pool.pc[h] = "idle"
        /\ pool' = [pc |-> [pool.pc EXCEPT ![h] = "queued"],
                    queue |-> Append(pool.queue, h)]
    /\ UNCHANGED <<mkt, db, last, bulk, tables, app, upd>>

\* A free worker takes the oldest queued call and runs the SDK call.
PoolStart ==
    /\ pool.queue # << >>
    /\ HasFreeWorker(pool)
    /\ pool' = [pc |-> [pool.pc EXCEPT ![Head(pool.queue)] = "running"],
                queue |-> Tail(pool.queue)]
    /\ UNCHANGED <<mkt, db, last, bulk, tables, app, upd>>

\* The marketplace stops answering a call in progress.
PoolHang ==
    /\ \E h \in Handlers :
        /\ pool.pc[h] = "running"
        /\ pool' = [pool EXCEPT !.pc[h] = "hung"]
    /\ UNCHANGED <<mkt, db, last, bulk, tables, app, upd>>

\* The SDK call returns or raises: the worker is free, the future is set.
PoolComplete ==
    /\ \E h \in Handlers :
        /\ CallCanComplete(pool.pc[h])
        /\ pool' = [pool EXCEPT !.pc[h] = "returned"]
    /\ UNCHANGED <<mkt, db, last, bulk, tables, app, upd>>

\* The event loop resumes the handler after its await.
PoolResume ==
    /\ \E h \in Handlers :
        /\ pool.pc[h] = "returned"
        /\ pool' = [pool EXCEPT !.pc[h] = "idle"]
    /\ UNCHANGED <<mkt, db, last, bulk, tables, app, upd>>

\* ------------------------------------------------- application lifespan
\* Module level of main.py, executed once on import: the four globals are
\* None, then webhook_handler = MCPWebhookHandler(mcp_server) stores the
\* value the global has at that moment and the handler's app is mounted.
ImportModule ==
    /\ app.phase = "importing"
    /\ app' = [app EXCEPT !.phase = "imported",
                          !.webhook_handler = [mounted |-> TRUE,
                                               mcp_server |-> app.globals.mcp_server]]
    /\ UNCHANGED <<mkt, db, last, bulk, pool, tables, upd>>

\* lifespan before yield, one component at a time: DatabaseService() and
\* initialize(), EbayService() and initialize(), EbayListingAgent(...),
\* EbayMCPServer(...).  An initialize() that raises ends the startup.
Construct(g) ==
    CASE g = "db_service"   -> "DatabaseService"
      [] g = "ebay_service" -> "EbayService"
      [] g = "ebay_agent"   -> "EbayListingAgent"
      [] g = "mcp_server"   -> "EbayMCPServer"

StartupStep ==
    /\ app.phase = "imported"
    /\ Len(app.created) < Len(Globals)
    /\ \E ok \in BOOLEAN :
        LET g == Globals[Len(app.created) + 1] IN
        /\ ~ok => g \in {"db_service", "ebay_service"}
        /\ app' = IF ok
                  THEN [app EXCEPT !.globals[g] = Construct(g),
                                   !.created = Append(@, g)]
                  ELSE [app EXCEPT !.phase = "failed", !.error = "initialize raised"]
    /\ UNCHANGED <<mkt, db, last, bulk, pool, tables, upd>>

\* asyncio.create_task(mcp_server.start()), then yield: requests are served.
StartupComplete ==
    /\ app.phase = "imported"
    /\ Len(app.created) = Len(Globals)
    /\ app' = [app EXCEPT !.task = TRUE, !.phase = "serving"]
    /\ UNCHANGED <<mkt, db, last, bulk, pool, tables, upd>>

\* The server stops: lifespan resumes after yield.
ShutdownBegin ==
    /\ app.phase = "serving"
    /\ bulk.phase = "idle"
    /\ app' = [app EXCEPT !.phase = "stopping"]
    /\ UNCHANGED <<mkt, db, last, bulk, pool, tables, upd>>

\* The methods named close that the classes define: DatabaseService has
\* one, EbayService has none.
HasClose(g) == g = "db_service"

\* lifespan after yield: await db_service.close(), then await
\* ebay_service.close().  Calling a method the object does not have raises
\* AttributeError, which leaves lifespan; after the last close lifespan
\* returns.
Cleanup == <<"db_service", "ebay_service">>

ShutdownStep ==
    /\ app.phase = "stopping"
    /\ Len(app.closed) < Len(Cleanup)
    /\ LET g == Cleanup[Len(app.closed) + 1] IN
       app' = IF ~HasClose(g)
              THEN [app EXCEPT !.phase = "stopped", !.error = "AttributeError"]
              ELSE IF Len(app.closed) + 1 = Len(Cleanup)
              THEN [app EXCEPT !.closed = Append(@, g), !.phase = "stopped"]
              ELSE [app EXCEPT !.closed = Append(@, g)]
    /\ UNCHANGED <<mkt, db, last, bulk, pool, tables, upd>>

\* The tools a webhook call is tried with: those whose handler calls
\* neither the adapter nor the store, and names that are no tool.
WebhookTools == {"generate_report"} \cup OtherNames

\* EbayMCPServer.handle_call_tool for these tools.
HandleCallTool(tool_name, arguments) ==
    IF Handler(tool_name) = "_generate_report"
    THEN ToolResult(tool_name, FALSE, "", GenerateReport(arguments.report_type))
    ELSE ToolResult(tool_name, TRUE, "Unknown tool", NoResult)

\* POST /mcp/webhook/mcp -> handle_webhook.  A body without 'tool' or
\* 'arguments' raises HTTPException(400); the call goes to
\* self.mcp_server.handle_call_tool, which raises AttributeError when
\* self.mcp_server is None; an is_error result raises HTTPException(500);
\* every exception is caught and answered with 500.
WebhookCallTool ==
    /\ Fresh
    /\ \E tool_name \in WebhookTools, complete \in BOOLEAN,
          report_type \in {"sales", "other"} :
        LET arguments == [report_type |-> report_type]
            server == app.webhook_handler.mcp_server
            dispatched == complete /\ server # "None"
            result == HandleCallTool(tool_name, arguments)
        IN
        last' = [entry |-> "webhook", tool |-> tool_name,
                 args |-> IF complete THEN arguments ELSE NoResult,
                 ran |-> IF dispatched THEN "handle_call_tool" ELSE "",
                 raised |-> ~dispatched,
                 result |-> IF dispatched THEN result.body ELSE NoResult,
                 response |->
                    IF ~complete
                    THEN [status |-> 500, detail |-> "400: Missing required fields"]
                    ELSE IF server = "None"
                    THEN [status |-> 500, detail |-> "AttributeError"]
                    ELSE IF result.is_error
                    THEN [status |-> 500, detail |-> result.body]
                    ELSE [status |-> 200, body |-> [success |-> TRUE,
                                                    result |-> result.body]],
                 calls |-> << >>]
    /\ UNCHANGED <<mkt, db, bulk, pool, tables, app, upd>>

\* ---------------------------------------------------- concurrent updates
\* The update_listing tool as its caller runs it, one await at a time;
\* between two awaits another caller's update may run.
\* First await: ebay_service.get_listing, then updated = {**current,
\* **update.updates}.
UpdateGet(c) ==
    /\ app.phase = "serving"
    /\ upd[c].pc = "idle"
    /\ \E id \in ItemIds, updates \in UpdateDicts, ackGet \in Acks :
        LET current == EbayGetListing(id, ackGet, mkt) IN
        /\ CanAck("GetItem", id, ackGet, mkt)
        /\ upd' = [upd EXCEPT ![c] =
                    IF current.ok
                    THEN [pc |-> "got", listing_id |-> id, updates |-> updates,
                          updated |-> Merge(current.value, updates),
                          result |-> NoResult]
                    ELSE [pc |-> "done", listing_id |-> id, updates |-> updates,
                          updated |-> EmptyData,
                          result |-> [success |-> FALSE, error |-> current.error,
                                      message |-> "Failed to update listing"]]]
    /\ UNCHANGED <<mkt, db, last, bulk, pool, tables, app>>

\* Second await: ebay_service.update_listing(listing_id, updated).
UpdateRevise(c) ==
    /\ upd[c].pc = "got"
    /\ \E ackRevise \in Acks :
        LET revised == EbayUpdateListing(upd[c].listing_id, upd[c].updated,
                                         ackRevise, mkt)
        IN
        /\ CanAck("ReviseItem", upd[c].listing_id, ackRevise, mkt)
        /\ mkt' = revised.mkt
        /\ upd' = [upd EXCEPT ![c] =
                    IF revised.ok
                    THEN [@ EXCEPT !.pc = "revised"]
                    ELSE [@ EXCEPT !.pc = "done",
                                   !.result = [success |-> FALSE,
                                               error |-> revised.error,
                                               message |-> "Failed to update listing"]]]
    /\ UNCHANGED <<db, last, bulk, pool, tables, app>>

\* Third await: db_service.update_listing(listing_id, updated), then the
\* success envelope.
UpdateStore(c) ==
    /\ upd[c].pc = "revised"
    /\ \E dbAck \in DbAcks :
        /\ db' = IF dbAck = "Raise" THEN db
                 ELSE DbUpdateListing(upd[c].listing_id, upd[c].updated, db)
        /\ upd' = [upd EXCEPT ![c] =
                    [@ EXCEPT !.pc = "done",
                              !.result =
                                 IF dbAck = "Raise"
                                 THEN [success |-> FALSE, error |-> "database error",
                                       message |-> "Failed to update listing"]
                                 ELSE [success |-> TRUE,
                                       listing_id |-> upd[c].listing_id,
                                       updated_fields |-> DOMAIN upd[c].updates,
                                       message |-> "Listing updated successfully"]]]
    /\ UNCHANGED <<mkt, last, bulk, pool, tables, app>>

\* ------------------------------------------------------ specifications
Next ==
    \/ RestCreateListing
    \/ RestUpdateListing
    \/ RestSearchListings
    \/ RestAnalyzeListing
    \/ RestSuggestCategories
    \/ RestOptimizeListing
    \/ McpCreateListing
    \/ McpUpdateListing
    \/ McpSearchListings
    \/ McpAnalyzeListing
    \/ McpBulkOperations
    \/ McpGenerateReport
    \/ McpAiAssistant
    \/ McpUnknownTool

Spec == Init /\ [][Next]_vars

\* One bulk operation, from a marketplace and a store holding every listing.
InitBulk ==
    /\ mkt = [i \in ItemIds |-> InitialItem]
    /\ db = [i \in ItemIds |-> InitialRow]
    /\ last = NoRequest
    /\ bulk = Idle
    /\ pool = PoolIdle
    /\ tables = NoTables
    /\ app = Serving
    /\ upd = NoUpdates

NextBulk ==
    \/ BulkStart
    \/ BulkCall
    \/ BulkReturn
    \/ BulkFinish
    \/ McpBulkOperations
    \/ RestBulkUnsupported
    \/ RestDeleteListing

SpecBulk == InitBulk /\ [][NextBulk]_vars

\* The seven agent tools through every entry point that calls them, from a
\* marketplace with one free id and a store mirroring it.
InitTools ==
    /\ mkt = [i \in ItemIds |-> IF i < MaxItems THEN InitialItem ELSE NoItem]
    /\ db = [i \in ItemIds |-> IF i < MaxItems THEN InitialRow ELSE NoRow]
    /\ last = NoRequest
    /\ bulk = Idle
    /\ pool = PoolIdle
    /\ tables = NoTables
    /\ app = Serving
    /\ upd = NoUpdates

NextTools ==
    \/ RestCreateListing
    \/ RestUpdateListing
    \/ RestSearchListings
    \/ RestAnalyzeListing
    \/ RestSuggestCategories
    \/ RestOptimizeListing
    \/ McpCreateListing
    \/ McpUpdateListing
    \/ McpSearchListings
    \/ McpAnalyzeListing
    \/ BulkStart
    \/ BulkCall
    \/ BulkReturn
    \/ BulkFinish
    \/ RestBulkUnsupported

SpecTools == InitTools /\ [][NextTools]_vars

\* One bulk request of BackgroundThreshold or one more ids.
NextBackground ==
    \/ RestBulkLarge
    \/ BulkCall
    \/ BulkReturn
    \/ BulkFinish

SpecBackground == InitBulk /\ [][NextBackground]_vars

\* The persistence layer's inserts and deletes on the two tables.
NextStore ==
    \/ DbStoreListing
    \/ DbCreateUser
    \/ DbRemoveListing

InitStore == InitBulk

SpecStore == InitStore /\ [][NextStore]_vars

\* The handlers' marketplace calls on the worker pool.
NextPool ==
    \/ PoolSubmit
    \/ PoolStart
    \/ PoolHang
    \/ PoolComplete
    \/ PoolResume

InitPool == InitBulk

SpecPool == InitPool /\ [][NextPool]_vars

\* The application from import to shutdown, serving requests in between.
InitLifespan ==
    /\ mkt = [i \in ItemIds |-> IF i < MaxItems THEN InitialItem ELSE NoItem]
    /\ db = [i \in ItemIds |-> IF i < MaxItems THEN InitialRow ELSE NoRow]
    /\ last = NoRequest
    /\ bulk = Idle
    /\ pool = PoolIdle
    /\ tables = NoTables
    /\ app = Importing
    /\ upd = NoUpdates

NextLifespan ==
    \/ ImportModule
    \/ StartupStep
    \/ StartupComplete
    \/ ShutdownBegin
    \/ ShutdownStep
    \/ WebhookCallTool
    \/ RestCreateListing
    \/ RestAnalyzeListing
    \/ McpGenerateReport

SpecLifespan == InitLifespan /\ [][NextLifespan]_vars

\* Two callers updating listings while the application serves.
NextConcurrent ==
    \/ \E c \in Callers : UpdateGet(c)
    \/ \E c \in Callers : UpdateRevise(c)
    \/ \E c \in Callers : UpdateStore(c)

SpecConcurrent == InitTools /\ [][NextConcurrent]_vars

\* ============================================================== claims
IsCreateCall == last.entry \in {"rest", "mcp"} /\ last.tool = "create_listing"

\* The marketplace acknowledged the AddItem of the create call handled last.
AddItemAcked ==
    /\ IsCreateCall
    /\ Len(last.calls) = 1
    /\ last.calls[1].api = "AddItem"
    /\ last.calls[1].ack = "Success"

\* C1: a listing creation call (POST /api/listings or MCP create_listing)
\* with price <= 0 or quantity < 0 is rejected with a failure result (422,
\* or an is_error tool result, never a success envelope) and makes no
\* AddItem call.
C1_InvalidCreateRejected ==
    (IsCreateCall /\ (last.args.price <= 0 \/ last.args.quantity < 0)) =>
        /\ last.calls = << >>
        /\ ~("success" \in DOMAIN last.result /\ last.result.success)
        /\ last.entry = "rest" => last.response.status = 422
        /\ last.entry = "mcp" => last.response.is_error

C1_Witness ==
    /\ IsCreateCall
    /\ last.entry = "mcp"
    /\ last.args.price = 0
    /\ last.args.quantity >= 0
    /\ last.response.is_error
    /\ last.calls = << >>

\* C3: a tool dispatch call whose name is not a registered tool name runs no
\* handler and makes no adapter call, and its caller gets a tool result with
\* is_error set that carries the 'Unknown tool' error and the tool name.
C3_UnknownToolIsErrorResult ==
    (last.entry = "mcp" /\ last.tool \notin ToolNames) =>
        /\ last.ran = ""
        /\ last.calls = << >>
        /\ "is_error" \in DOMAIN last.response
        /\ last.response.is_error
        /\ last.response.body.error = "Unknown tool"
        /\ last.response.body.tool = last.tool

C3_Witness ==
    /\ last.entry = "mcp"
    /\ last.tool = "bulk_update"
    /\ last.response.is_error
    /\ last.response.body.tool = "bulk_update"

\* C4 (as claimed): when create_listing is called with valid details and the
\* marketplace acknowledges the creation with a listing id, the store holds a
\* row for that id with status 'active' and a non-null listed_at, and the
\* tool returns a success envelope carrying the id.
C4_CreateStoresActiveRow ==
    (AddItemAcked /\ ListingDetailsValid(last.args)) =>
        /\ db[last.calls[1].id].status = "active"
        /\ db[last.calls[1].id].listed_at
        /\ last.result.success
        /\ "listing_id" \in DOMAIN last.result
        /\ last.result.listing_id = last.calls[1].id

\* C5 (as claimed): a listing created through the create_listing tool and
\* then retrieved by the id the tool returned has the title, price and
\* quantity submitted.
C5_CreateThenGetRoundTrip ==
    (AddItemAcked /\ ListingDetailsValid(last.args)) =>
        /\ last.result.success
        /\ "listing_id" \in DOMAIN last.result
        /\ LET got == EbayGetListing(last.result.listing_id, "Success", mkt) IN
            /\ got.ok
            /\ got.value.title = last.args.title
            /\ got.value.price = last.args.price
            /\ got.value.quantity = last.args.quantity

C10_UniformEnvelope ==
    (last.entry = "mcp" /\ last.ran # "") =>
        /\ ~last.raised
        /\ {"success", "message"} \subseteq DOMAIN last.result
        /\ last.result.success \in BOOLEAN
        /\ ~last.result.success => "error" \in DOMAIN last.result

\* A bulk request has been answered (a report, or an error).
IsBulkAnswer == last.entry # "none" /\ last.tool \in {"bulk_update", "bulk_operations"}

\* The effect a successful entry stands for is in place: the fields of data
\* on the marketplace item (update), no local row (delete).
EffectInPlace(listing_id) ==
    IF bulk.operation = "update"
    THEN /\ "title" \in DOMAIN bulk.data => mkt[listing_id].Title = bulk.data.title
         /\ "price" \in DOMAIN bulk.data => mkt[listing_id].StartPrice = bulk.data.price
    ELSE db[listing_id] = NoRow

\* C2 (as claimed): every bulk operation (update, delete, relist) through any
\* entry point returns a report with successful + failed = total whose
\* results list has one entry per id of the input list.
C2_BulkReportTotals ==
    IsBulkAnswer =>
        /\ {"total", "successful", "failed", "results"} \subseteq DOMAIN last.result
        /\ last.result.successful + last.result.failed = last.result.total
        /\ Len(last.result.results) = Len(last.args.listing_ids)
        /\ \A k \in 1..Len(last.args.listing_ids) :
              last.result.results[k].listing_id = last.args.listing_ids[k]

\* C6: in bulk_update, an id whose marketplace update raises gets an entry
\* {listing_id, success: false, error}, every other id gets {listing_id,
\* success: true}, the ids after a failure are still processed, and
\* successful and failed count the succeeding and the failing ids.
C6_BulkUpdatePerIdResults ==
    (IsBulkAnswer /\ last.ran = "bulk_update") =>
        LET ids     == last.args.listing_ids
            results == last.result.results
            okCalls == {k \in 1..Len(last.calls) : last.calls[k].ack = "Success"}
        IN  /\ Len(last.calls) = Len(ids)
            /\ Len(results) = Len(ids)
            /\ \A k \in 1..Len(ids) :
                  /\ last.calls[k].id = ids[k]
                  /\ results[k].listing_id = ids[k]
                  /\ results[k].success = (k \in okCalls)
                  /\ k \notin okCalls =>
                        /\ "error" \in DOMAIN results[k]
                        /\ results[k].error = "Failed to update listing"
            /\ last.result.total = Len(ids)
            /\ last.result.successful = Cardinality(okCalls)
            /\ last.result.failed = Len(ids) - Cardinality(okCalls)

C6_Witness ==
    /\ IsBulkAnswer
    /\ last.ran = "bulk_update"
    /\ last.entry = "agent"
    /\ last.args.listing_ids = <<1, 2, 3>>
    /\ last.calls[1].ack = "Success"
    /\ last.calls[2].ack = "Raise"
    /\ last.calls[3].ack = "Success"
    /\ last.result.successful = 2
    /\ last.result.failed = 1
    /\ ~last.result.results[2].success
    /\ last.result.results[2].listing_id = 2

\* C7: within a bulk operation at most one marketplace call is in flight,
\* the one of the id after the last entry (the next call starts only after
\* the one before returned or raised); the entries are in input order; and
\* the effect of every id recorded as a success is still in place after the
\* ids that follow it, failing ones included.
C7_BulkIsSequential ==
    bulk.phase \in {"run", "done"} =>
        /\ bulk.started \in {Len(bulk.results), Len(bulk.results) + 1}
        /\ bulk.started <= Len(bulk.ids)
        /\ \A k \in 1..Len(bulk.results) :
              /\ bulk.results[k].listing_id = bulk.ids[k]
              /\ bulk.results[k].success => EffectInPlace(bulk.ids[k])

C7_Witness ==
    /\ bulk.phase = "run"
    /\ bulk.operation = "update"
    /\ bulk.data = [title |-> "B"]
    /\ bulk.ids = <<1, 2, 3>>
    /\ Len(bulk.results) = 2
    /\ bulk.started = 3
    /\ bulk.results[1].success
    /\ ~bulk.results[2].success
    /\ mkt[1].Title = "B"
    /\ mkt[2].Title = "A"

\* C8 (as claimed): every operation the bulk request schema accepts (update,
\* delete, relist) is applied by perform_bulk_operation and yields a report
\* with total, successful, failed and results; none ends in an 'unsupported
\* operation' error.
C8_AcceptedOperationsApplied ==
    (IsBulkAnswer /\ last.entry = "rest"
        /\ BulkOperationRequestValid(last.args.operation, last.args.listing_ids)) =>
        /\ ~last.raised
        /\ last.response.status = 200
        /\ {"total", "successful", "failed", "results"} \subseteq DOMAIN last.result

\* The agent tool a request ran, whichever entry point it came through.
AgentTools == {"create_listing", "update_listing", "search_listings", "analyze_listing",
               "bulk_update", "suggest_categories", "optimize_listing"}
AgentToolOf(ran) ==
    CASE ran = "_create_listing"  -> "create_listing"
      [] ran = "_update_listing"  -> "update_listing"
      [] ran = "_search_listings" -> "search_listings"
      [] ran = "_analyze_listing" -> "analyze_listing"
      [] OTHER                    -> ran

\* C11: each of the seven agent tool handlers, called with parameters its
\* model accepts, returns an envelope whatever the marketplace adapter or
\* the persistence layer raised during the call: no exception leaves the
\* handler, the result has a boolean success and a message, and a failed
\* result (in bulk_update, a failed entry) carries the error.
C11_HandlersReturnEnvelope ==
    (/\ AgentToolOf(last.ran) \in AgentTools
     /\ AgentToolOf(last.ran) = "create_listing" => ListingDetailsValid(last.args)) =>
        /\ ~last.raised
        /\ {"success", "message"} \subseteq DOMAIN last.result
        /\ last.result.success \in BOOLEAN
        /\ IF AgentToolOf(last.ran) = "bulk_update"
           THEN \A k \in 1..Len(last.result.results) :
                    ~last.result.results[k].success =>
                        "error" \in DOMAIN last.result.results[k]
           ELSE ~last.result.success => "error" \in DOMAIN last.result
        /\ (AgentToolOf(last.ran) \notin {"bulk_update", "optimize_listing"}
              /\ \E k \in 1..Len(last.calls) : last.calls[k].ack = "Raise") =>
                ~last.result.success

C11_Witness ==
    /\ last.ran = "suggest_categories"
    /\ Len(last.calls) = 1
    /\ last.calls[1].ack = "Raise"
    /\ ~last.raised
    /\ ~last.result.success
    /\ last.result.error = "Failed to get category suggestions"

\* C12 (as claimed): when a REST endpoint (create, update, search, analyze,
\* suggest categories, optimize) gets a failure envelope from its tool
\* handler, the response has status 400 with the envelope's message as
\* detail.
C12_FailureEnvelopeIs400 ==
    (/\ last.entry = "rest"
     /\ last.ran \in AgentTools \ {"bulk_update"}
     /\ ~last.raised
     /\ ~last.result.success) =>
        /\ last.response.status = 400
        /\ last.response.detail = last.result.message

\* C13: a create_listing call adds a row to the local store only for an id
\* whose AddItem the marketplace acknowledged with 'Success'; when the
\* AddItem raises or is answered with another acknowledgement the tool
\* stores no row and returns the failure envelope carrying the adapter's
\* error.
C13_NoRowWithoutMarketplaceSuccess ==
    [][(last'.tool = "create_listing" /\ Len(last'.calls) = 1) =>
          /\ \A i \in ItemIds :
                db'[i] # db[i] => (last'.calls[1].ack = "Success" /\ last'.calls[1].id = i)
          /\ last'.calls[1].ack # "Success" =>
                /\ db' = db
                /\ ~last'.raised
                /\ ~last'.result.success
                /\ last'.result.error = "Failed to create listing"
                /\ last'.result.message = "Failed to create listing"]_vars

C13_Witness ==
    /\ last.tool = "create_listing"
    /\ Len(last.calls) = 1
    /\ last.calls[1].api = "AddItem"
    /\ last.calls[1].ack = "Failure"
    /\ ~last.result.success
    /\ \A i \in ItemIds : db[i] = NoRow

\* The error the adapter raises for a call that was not acknowledged.
AdapterError(api) ==
    CASE api = "AddItem"    -> "Failed to create listing"
      [] api = "ReviseItem" -> "Failed to update listing"
      [] api = "GetItem"    -> "Failed to get listing"

\* C14: the adapter's create_listing, update_listing and get_listing never
\* return a result for a response whose Ack is not 'Success', be the call
\* answered ('Failure') or not ('Raise'): the adapter raises its error, so
\* the tool that made the call stops there and reports that error (in
\* bulk_update, for that id).
C14_NonSuccessAckRaises ==
    /\ AgentToolOf(last.ran) \in {"create_listing", "update_listing"} =>
          \A k \in 1..Len(last.calls) :
              last.calls[k].ack # "Success" =>
                  /\ k = Len(last.calls)
                  /\ ~last.result.success
                  /\ last.result.error = AdapterError(last.calls[k].api)
    /\ (AgentToolOf(last.ran) \in {"analyze_listing", "optimize_listing"}
          /\ last.calls[1].ack # "Success") =>
              /\ Len(last.calls) = 1
              /\ ~last.result.success
              /\ last.result.error = AdapterError("GetItem")
    /\ AgentToolOf(last.ran) = "bulk_update" =>
          \A k \in 1..Len(last.calls) :
              /\ last.result.results[k].success = (last.calls[k].ack = "Success")
              /\ last.calls[k].ack # "Success" =>
                    last.result.results[k].error = AdapterError("ReviseItem")

C14_Witness ==
    /\ AgentToolOf(last.ran) = "update_listing"
    /\ Len(last.calls) = 2
    /\ last.calls[1].ack = "Success"
    /\ last.calls[2].api = "ReviseItem"
    /\ last.calls[2].ack = "Failure"
    /\ ~last.result.success
    /\ last.result.error = "Failed to update listing"

\* C15 (as claimed): DELETE /api/listings/{id} and the REST bulk 'delete'
\* remove the local row and report the id as deleted only when the
\* marketplace acknowledged EndItem with 'Success'; after any other
\* acknowledgement the row stays and the id is reported as a failure.
C15_DeleteOnlyOnSuccessAck ==
    /\ last.tool = "delete_listing" =>
          IF last.calls[1].ack = "Success"
          THEN last.response.status = 200 /\ db[last.args.listing_id] = NoRow
          ELSE last.response.status # 200 /\ db[last.args.listing_id] # NoRow
    /\ last.ran = "perform_bulk_operation" /\ ~last.raised =>
          \A k \in 1..Len(last.calls) :
              /\ last.result.results[k].success = (last.calls[k].ack = "Success")
              /\ (\A j \in 1..Len(last.calls) :
                      last.calls[j].id = last.calls[k].id => last.calls[j].ack # "Success")
                    => db[last.calls[k].id] # NoRow

\* C16: at most 5 SDK calls execute at any moment, however many handlers
\* have submitted one; a queued call is started only when fewer than 5
\* workers are busy, and a handler leaves its await only after its own call
\* completed.
C16_AtMostFiveCallsExecuting ==
    /\ [](Cardinality(Busy(pool)) <= MaxWorkers)
    /\ [][\A h \in Handlers :
            /\ (pool.pc[h] = "queued" /\ pool'.pc[h] # "queued") =>
                  /\ Cardinality(Busy(pool)) < MaxWorkers
                  /\ pool'.pc[h] = "running"
            /\ (pool.pc[h] # "idle" /\ pool'.pc[h] = "idle") =>
                  pool.pc[h] = "returned"]_vars

C16_Witness ==
    /\ Cardinality(Busy(pool)) = MaxWorkers
    /\ pool.queue # << >>
    /\ \E h \in Handlers : pool.pc[h] = "queued"

\* C17: a call that never returns keeps its worker for ever, and once 5
\* calls are hung no queued call is started and no handler awaiting a
\* queued or hung call is resumed.
C17_HungCallsBlockThePool ==
    [][/\ \A h \in Handlers : pool.pc[h] = "hung" => pool'.pc[h] = "hung"
       /\ Cardinality(Hung(pool)) = MaxWorkers =>
             \A h \in Handlers :
                 pool.pc[h] \in {"queued", "hung"} => pool'.pc[h] = pool.pc[h]]_vars

C17_Witness ==
    /\ Cardinality(Hung(pool)) = MaxWorkers
    /\ \E h \in Handlers : pool.pc[h] = "queued"

\* C18 (as claimed): POST /api/bulk-operations with more than 10 ids answers
\* at once {success: true, task_id} and leaves the operation to a
\* background task; with 10 or fewer ids the operation is complete when
\* the response is given, and the response is the per-id bulk report.
C18_BackgroundAboveTen ==
    (last.entry = "rest" /\ last.tool = "bulk_operations") =>
        IF Len(last.args.listing_ids) > BackgroundThreshold
        THEN /\ last.response.status = 200
             /\ last.result.success
             /\ "task_id" \in DOMAIN last.result
        ELSE /\ last.response.status = 200
             /\ bulk.phase = "done"
             /\ {"total", "successful", "failed", "results"} \subseteq DOMAIN last.result
             /\ Len(last.result.results) = Len(last.args.listing_ids)

\* C19 (as claimed): whatever request was served, through REST, tool
\* dispatch or the agent tools, every row of the local store has price > 0
\* and quantity >= 0.
C19_RowsHavePositivePrice ==
    \A i \in ItemIds :
        db[i] # NoRow => (db[i].price > 0 /\ db[i].quantity >= 0)

\* No two rows of a table share a non-null value of the column.
NoDuplicate(rows, column) ==
    \A j, k \in 1..Len(rows) :
        (j # k /\ (column = "email" \/ rows[j][column] # 0)) =>
            rows[j][column] # rows[k][column]

\* C20: no two listing rows have the same marketplace listing id and no
\* two user rows the same email, and a store_listing or create_user that
\* would create such a duplicate raises and leaves both tables as they
\* were.
C20_UniqueIdsAndEmails ==
    /\ [](NoDuplicate(tables.listings, "ebay_listing_id")
            /\ NoDuplicate(tables.users, "email"))
    /\ [][/\ (/\ last'.tool = "store_listing"
              /\ last'.args.listing_id # 0
              /\ \E k \in 1..Len(tables.listings) :
                    tables.listings[k].ebay_listing_id = last'.args.listing_id)
                => (last'.raised /\ tables' = tables)
          /\ (/\ last'.tool = "create_user"
              /\ \E k \in 1..Len(tables.users) :
                    tables.users[k].email = last'.args.email)
                => (last'.raised /\ tables' = tables)]_vars

C20_Witness ==
    /\ last.tool = "store_listing"
    /\ last.raised
    /\ Len(tables.listings) = 1
    /\ tables.listings[1].ebay_listing_id = last.args.listing_id

\* What tool dispatch does with the arguments of a request: the tool its
\* handler looks up by name, called with these arguments.
DispatchOutcome(tool_name, args, ack1, ack2, dbAck, newId, found, m, d) ==
    CASE tool_name = "create_listing" ->
            LET t == CreateListingTool(args, ack1, newId, m, d)
            IN  [calls |-> t.calls, mkt |-> t.mkt, db |-> t.db]
      [] tool_name = "update_listing" ->
            LET t == UpdateListingTool(args, ack1, ack2, dbAck, m, d)
            IN  [calls |-> t.calls, mkt |-> t.mkt, db |-> t.db]
      [] tool_name = "search_listings" ->
            LET t == SearchListingsTool(args, found, ack1, dbAck, d)
            IN  [calls |-> t.calls, mkt |-> m, db |-> d]
      [] tool_name = "analyze_listing" ->
            LET t == AnalyzeListingTool(args.listing_id, ack1, ack2, m)
            IN  [calls |-> t.calls, mkt |-> m, db |-> d]

\* C21 (as claimed): for create, update, search, analyze and bulk update,
\* a REST request makes the calls to the marketplace adapter and the
\* persistence layer that tool dispatch makes for the same arguments (and
\* the same marketplace answers): the same adapter calls in the same
\* order, the same marketplace and store afterwards; a bulk update makes
\* one ReviseItem per id.
C21_SameCallsOnBothSurfaces ==
    /\ [][(/\ last.entry = "none"
           /\ last'.entry = "rest"
           /\ last'.tool \in {"create_listing", "update_listing", "search_listings",
                              "analyze_listing"}) =>
             \E ack1 \in Acks, ack2 \in Acks, dbAck \in DbAcks, newId \in ItemIds,
                found \in FoundLists :
                 LET t == DispatchOutcome(last'.tool, last'.args, ack1, ack2, dbAck,
                                          newId, found, mkt, db)
                 IN  /\ t.calls = last'.calls
                     /\ t.mkt = mkt'
                     /\ t.db = db']_vars
    /\ []((/\ last.entry = "rest"
           /\ last.tool = "bulk_operations"
           /\ last.args.operation = "update") =>
              /\ Len(last.calls) = Len(last.args.listing_ids)
              /\ \A k \in 1..Len(last.calls) :
                    /\ last.calls[k].api = "ReviseItem"
                    /\ last.calls[k].id = last.args.listing_ids[k])


\* C24 (as claimed): when tool bulk_operations with operation 'delete'
\* reports success = true for a listing id, that listing has been ended on
\* the marketplace (an EndItem call for it was made and, where the listing
\* exists, it is ended) and no local row for it remains.
C24_McpDeleteSuccessMeansDeleted ==
    (/\ last.entry = "mcp"
     /\ last.ran = "_bulk_operations"
     /\ last.args.operation = "delete") =>
        \A k \in 1..Len(last.result.results) :
            LET r == last.result.results[k] IN
            r.success =>
                /\ \E c \in 1..Len(last.calls) :
                      /\ last.calls[c].api = "EndItem"
                      /\ last.calls[c].id = r.listing_id
                /\ mkt[r.listing_id].ListingStatus # "Active"
                /\ db[r.listing_id] = NoRow


\* C25: in the update_listing tool the marketplace comes first.  Whenever
\* the tool ran, its first call is GetItem and its second, if any,
\* ReviseItem; if reading the current listing or the revision was not
\* acknowledged, the local rows are unchanged and the result is a failure
\* envelope; the local rows change only when both were acknowledged.
C25_MarketplaceBeforeLocalWrite ==
    [][(/\ last.entry = "none"
        /\ last'.tool = "update_listing"
        /\ last'.calls # << >>) =>
          LET c  == last'.calls
              acked == /\ Len(c) = 2
                       /\ c[1].ack = "Success"
                       /\ c[2].ack = "Success"
          IN  /\ c[1].api = "GetItem"
              /\ Len(c) <= 2
              /\ Len(c) = 2 => c[1].ack = "Success" /\ c[2].api = "ReviseItem"
              /\ ~acked => /\ db' = db
                           /\ ~last'.raised
                           /\ last'.result.success = FALSE
                           /\ "error" \in DOMAIN last'.result
              /\ db' # db => acked]_vars

\* The revision was refused for a listing that has a local row.
C25_Witness ==
    /\ last.tool = "update_listing"
    /\ Len(last.calls) = 2
    /\ last.calls[2].api = "ReviseItem"
    /\ last.calls[2].ack # "Success"
    /\ db[last.args.listing_id] # NoRow
    /\ last.args.updates # EmptyData
    /\ last.result.success = FALSE


\* C27 (as claimed): after any sequence of create and update operations
\* every local row's status is one of the four ListingStatus values
\* 'draft', 'active', 'sold', 'ended'.
C27_RowStatusInEnum ==
    \A i \in ItemIds :
        db[i] # NoRow => db[i].status \in {"draft", "active", "sold", "ended"}

\* C30: the overall success flag of a bulk_update report is true exactly
\* when at least one id was updated successfully; it is false when every
\* id failed and when the list of ids is empty.
C30_BulkSuccessIffOneUpdated ==
    (/\ last.ran = "bulk_update"
     /\ ~last.raised) =>
        LET r == last.result
            updated == {k \in 1..Len(r.results) : r.results[k].success}
        IN  /\ r.success <=> updated # {}
            /\ Len(last.args.listing_ids) = 0 => ~r.success
            /\ (\A k \in 1..Len(r.results) : ~r.results[k].success) => ~r.success
            /\ Len(r.results) = Len(last.args.listing_ids)

\* A bulk update of two ids or more, every one of them refused.
C30_Witness ==
    /\ last.ran = "bulk_update"
    /\ ~last.raised
    /\ Len(last.args.listing_ids) >= 2
    /\ \A k \in 1..Len(last.result.results) : ~last.result.results[k].success
    /\ ~last.result.success


\* C28: the condition string of a listing is mapped to the marketplace's
\* condition code by the fixed table New 1000, Like New 1500, Very Good
\* 2000, Good 3000, Acceptable 4000, For parts or not working 7000; any
\* other string maps to 1000 and never causes an error: every create call
\* with valid details reaches AddItem carrying the mapped code.
C28_ConditionTable ==
    (/\ last.tool = "create_listing"
     /\ last.ran # ""
     /\ ListingDetailsValid(last.args)) =>
        LET c == last.args.condition IN
        /\ ~last.raised
        /\ Len(last.calls) = 1
        /\ last.calls[1].api = "AddItem"
        /\ c = "New" => last.calls[1].ConditionID = 1000
        /\ c = "Like New" => last.calls[1].ConditionID = 1500
        /\ c = "Very Good" => last.calls[1].ConditionID = 2000
        /\ c = "Good" => last.calls[1].ConditionID = 3000
        /\ c = "Acceptable" => last.calls[1].ConditionID = 4000
        /\ c = "For parts or not working" => last.calls[1].ConditionID = 7000
        /\ c \notin ItemCondition => last.calls[1].ConditionID = 1000

\* A listing created with a condition string the table does not hold.
C28_Witness ==
    /\ last.tool = "create_listing"
    /\ last.ran = "_create_listing"
    /\ last.args.condition = "Refurbished"
    /\ Len(last.calls) = 1
    /\ last.calls[1].ack = "Success"
    /\ last.calls[1].ConditionID = 1000
    /\ mkt[last.calls[1].id].ListingStatus = "Active"


\* The elements of s at the 0-based positions from..to that s has, in
\* order.
ElementsAt(s, from, to) ==
    LET lo == IF from < 0 THEN 0 ELSE from
        hi == IF to + 1 > Len(s) THEN Len(s) ELSE to + 1
    IN  IF lo < hi THEN SubSeq(s, lo + 1, hi) ELSE << >>

\* C29 (as claimed): GET /api/listings answers with 'listings' exactly the
\* elements offset .. offset+limit-1 of the merged search result, in the
\* merged order and never more than limit of them, and with 'total' the
\* size of the whole merged result, whatever limit and offset are.
C29_PageOfMergedResult ==
    (/\ last.entry = "rest"
     /\ last.tool = "search_listings"
     /\ last.response.status = 200) =>
        LET b == last.response.body IN
        /\ b.listings = ElementsAt(last.result.listings, b.offset, b.offset + b.limit - 1)
        /\ b.limit >= 0 => Len(b.listings) <= b.limit
        /\ b.total = Len(last.result.listings)


\* C22 (as claimed): startup creates the persistence layer, the marketplace
\* client, the agent and the protocol server in that order and no request
\* is answered before all four exist; shutdown releases the resources in
\* the reverse order, the marketplace client before the persistence
\* layer, and completes without error.
C22_StartupOrderShutdownReverse ==
    /\ \E n \in 0..Len(Globals) : app.created = SubSeq(Globals, 1, n)
    /\ last.entry # "none" =>
          /\ app.created = Globals
          /\ \A k \in 1..Len(Globals) : app.globals[Globals[k]] # "None"
    /\ app.closed \in {<< >>, <<"ebay_service">>, <<"ebay_service", "db_service">>}
    /\ app.phase = "stopped" =>
          /\ app.error = ""
          /\ app.closed = <<"ebay_service", "db_service">>

\* C23 (as claimed): every webhook tool call that arrives after startup is
\* dispatched to the protocol-server instance startup created: once the
\* application serves, the mounted handler's reference is that instance
\* and never None, and a call with a complete body runs its
\* handle_call_tool.
C23_WebhookReachesStartedServer ==
    /\ app.phase = "serving" =>
          /\ app.webhook_handler.mcp_server # "None"
          /\ app.webhook_handler.mcp_server = app.globals.mcp_server
    /\ (last.entry = "webhook" /\ last.args # NoResult) =>
          last.ran = "handle_call_tool"


\* The marketplace's value of a listing field.
MarketField(item, k) ==
    CASE k = "title"    -> item.Title
      [] k = "price"    -> item.StartPrice
      [] k = "quantity" -> item.Quantity

\* C26 (as claimed): when two overlapping update_listing calls on the same
\* listing change disjoint sets of fields and both return success, both
\* changes are in effect on the marketplace and in the local row, whatever
\* the interleaving.
C26_DisjointUpdatesBothTakeEffect ==
    \A c \in Callers, o \in Callers :
        (/\ c # o
         /\ upd[c].pc = "done"
         /\ upd[o].pc = "done"
         /\ upd[c].result.success
         /\ upd[o].result.success
         /\ upd[c].listing_id = upd[o].listing_id
         /\ DOMAIN upd[c].updates \cap DOMAIN upd[o].updates = {}) =>
            \A k \in DOMAIN upd[c].updates :
                /\ MarketField(mkt[upd[c].listing_id], k) = upd[c].updates[k]
                /\ db[upd[c].listing_id][k] = upd[c].updates[k]
=============================================================================
